---- MODULE Spec2Model ----
(***************************************************************************)
(* Spec matching, candidate ranking and pricing allocation of the RFP      *)
(* platform: SpecMatchService (src/src/services/spec_match_service.py),    *)
(* TechnicalAgent (src/src/agents/technical_agent.py) and PricingService   *)
(* (src/src/services/pricing_service.py).                                  *)
(*                                                                         *)
(* Strings are sequences of one-character strings, so that lower(),        *)
(* strip(), split(), the substring test and the regular expressions are    *)
(* computed character by character.  Floats are exact rationals <<n, d>>   *)
(* with d > 0 in lowest terms.                                             *)
(***************************************************************************)
EXTENDS Integers, Sequences, FiniteSets, TLC

VARIABLES
    pc,             \* position of the run: "start", "done"; of the pipeline:
                    \* "technical", "pricing"; of TechnicalAgent.run alone:
                    \* "parse", "technical", "returned", "raised"
    rfp_value,      \* _compare_values: the required value
    sku_value,      \* _compare_values: the candidate value (or None)
    cmp_out,        \* _compare_values / _get_match_type: the row computed
    spec_name,      \* _find_matching_feature: the required spec's name
    sku_features,   \* _find_matching_feature: the candidate's features
    found_value,    \* _find_matching_feature: the value returned (or None)
    rfp_item,       \* _process_rfp_item: the RFP item
    candidates,     \* _process_rfp_item: what get_sku_candidates returned
    scored_skus,    \* _process_rfp_item: scored_skus after the sort
    recommendation, \* _process_rfp_item: the TechnicalRecommendation returned
    retriever,      \* the SKURetriever: whether its index is loaded, what
                    \* load_skus yields, the response of its last query
    services,       \* a module-level service: its global, the instances
                    \* constructed, the threads calling its getter
    rfp,            \* price_rfp: the RFP (scope_of_supply, test_requirements)
    technical_output, \* price_rfp: the TechnicalAgentOutput
    pricing_tables, \* PricingService.pricing_tables
    pricing_output  \* price_rfp: the PricingAgentOutput returned

cmpVars == <<rfp_value, sku_value, cmp_out>>
findVars == <<spec_name, sku_features, found_value>>
techVars == <<rfp_item, candidates, scored_skus, recommendation, retriever,
              services>>
priceVars == <<rfp, technical_output, pricing_tables, pricing_output>>
vars == <<pc, cmpVars, findVars, techVars, priceVars>>

(***************************************************************************)
(* Rationals                                                               *)
(***************************************************************************)
Abs(x) == IF x < 0 THEN -x ELSE x

RECURSIVE GCD(_, _)
GCD(a, b) == IF b = 0 THEN a ELSE GCD(b, a % b)

Rat(n, d) == LET g == GCD(Abs(n), d) IN <<n \div g, d \div g>>
RatInt(n) == <<n, 1>>
RatAdd(a, b) == Rat(a[1] * b[2] + b[1] * a[2], a[2] * b[2])
RatSub(a, b) == Rat(a[1] * b[2] - b[1] * a[2], a[2] * b[2])
RatMul(a, b) == Rat(a[1] * b[1], a[2] * b[2])
RatDivInt(a, n) == Rat(a[1], a[2] * n)
RatAbs(a) == <<Abs(a[1]), a[2]>>
RatLe(a, b) == a[1] * b[2] <= b[1] * a[2]
RatLt(a, b) == a[1] * b[2] < b[1] * a[2]

(***************************************************************************)
(* Python str operations                                                   *)
(***************************************************************************)
UpperChars == <<"A", "B", "C", "D", "E", "F", "G", "H", "I", "J", "K", "L", "M",
                "N", "O", "P", "Q", "R", "S", "T", "U", "V", "W", "X", "Y", "Z">>
LowerChars == <<"a", "b", "c", "d", "e", "f", "g", "h", "i", "j", "k", "l", "m",
                "n", "o", "p", "q", "r", "s", "t", "u", "v", "w", "x", "y", "z">>
DigitChars == <<"0", "1", "2", "3", "4", "5", "6", "7", "8", "9">>

UpperSet == {UpperChars[i] : i \in DOMAIN UpperChars}
LowerSet == {LowerChars[i] : i \in DOMAIN LowerChars}
DigitSet == {DigitChars[i] : i \in DOMAIN DigitChars}
LowerOf == [c \in UpperSet |->
               LowerChars[CHOOSE i \in DOMAIN UpperChars : UpperChars[i] = c]]
DigitValOf == [c \in DigitSet |->
                  (CHOOSE i \in DOMAIN DigitChars : DigitChars[i] = c) - 1]

IsUpper(c) == c \in UpperSet
IsLower(c) == c \in LowerSet
IsDigit(c) == c \in DigitSet
IsSpace(c) == c = " "
DigitVal(c) == DigitValOf[c]

\* str.lower()
LowerChar(c) == IF IsUpper(c) THEN LowerOf[c] ELSE c
RECURSIVE str_lower(_)
str_lower(s) ==
    IF s = <<>> THEN <<>> ELSE <<LowerChar(Head(s))>> \o str_lower(Tail(s))

\* str.strip(chars): drop the characters of the set from both ends
RECURSIVE lstrip(_, _)
lstrip(s, chars) ==
    IF s # <<>> /\ Head(s) \in chars THEN lstrip(Tail(s), chars) ELSE s
RECURSIVE rstrip(_, _)
rstrip(s, chars) ==
    IF s # <<>> /\ s[Len(s)] \in chars THEN rstrip(SubSeq(s, 1, Len(s) - 1), chars)
    ELSE s
str_strip(s) == rstrip(lstrip(s, {" "}), {" "})

\* a in b
str_in(a, b) ==
    \E i \in 0..(Len(b) - Len(a)) : SubSeq(b, i + 1, i + Len(a)) = a

\* set(s.split()): the maximal runs of non-whitespace characters
str_words(s) ==
    { SubSeq(s, i, j) : <<i, j>> \in
        { p \in (1..Len(s)) \X (1..Len(s)) :
            /\ p[1] <= p[2]
            /\ \A k \in p[1]..p[2] : ~IsSpace(s[k])
            /\ (p[1] = 1 \/ IsSpace(s[p[1] - 1]))
            /\ (p[2] = Len(s) \/ IsSpace(s[p[2] + 1])) } }

Max(a, b) == IF a >= b THEN a ELSE b

(***************************************************************************)
(* SpecMatchService: value comparison                                      *)
(***************************************************************************)
\* a tolerance of 1% in place of 10%
numeric_tolerance_one_percent == <<1, 100>>

\* SpecMatchService.__init__(numeric_tolerance = 0.1)
numeric_tolerance == <<1, 10>>

\* Optional values: Python's None against a present value
None == [found |-> FALSE, value |-> <<>>]
Some(v) == [found |-> TRUE, value |-> v]

\* The scores _compare_values returns
ScoreExact == <<1, 1>>      \* 1.0
ScoreGood == <<4, 5>>       \* 0.8
ScoreSubstring == <<3, 5>>  \* 0.6
ScorePartial == <<1, 2>>    \* 0.5
ScoreZero == <<0, 1>>       \* 0.0

\* last index of the maximal run of digits that starts at i (i - 1: no digit)
RECURSIVE DigitRunEnd(_, _)
DigitRunEnd(s, i) ==
    IF i <= Len(s) /\ IsDigit(s[i]) THEN DigitRunEnd(s, i + 1) ELSE i - 1

\* int(s[i..j]) of a run of digits; 0 for the empty run
RECURSIVE IntOf(_, _, _)
IntOf(s, i, j) ==
    IF j < i THEN 0 ELSE IntOf(s, i, j - 1) * 10 + DigitVal(s[j])

RECURSIVE Pow10(_)
Pow10(k) == IF k = 0 THEN 1 ELSE 10 * Pow10(k - 1)

\* _extract_number: float of the first match of (\d+\.?\d*), or None
extract_number(text) ==
    IF ~\E i \in 1..Len(text) : IsDigit(text[i]) THEN None
    ELSE LET i == CHOOSE x \in 1..Len(text) :
                      IsDigit(text[x]) /\ \A k \in 1..(x - 1) : ~IsDigit(text[k])
             j == DigitRunEnd(text, i)
             hasDot == j + 1 <= Len(text) /\ text[j + 1] = "."
             k == IF hasDot THEN DigitRunEnd(text, j + 2) ELSE j
             fracLen == IF hasDot THEN k - (j + 1) ELSE 0
         IN  Some(Rat(IntOf(text, i, j) * Pow10(fracLen) + IntOf(text, j + 2, k),
                      Pow10(fracLen)))

\* norm_value without lower(): a case-sensitive comparison
norm_value_case_sensitive(v) == str_strip(v)

\* str(value).lower().strip()
norm_value(v) == str_strip(str_lower(v))

\* numeric_compare with the candidate's number as the base of the tolerance
numeric_compare_sku_base(rfp_num, sku_num) ==
    LET tolerance == RatAbs(RatMul(sku_num, numeric_tolerance))
        diff == RatAbs(RatSub(rfp_num, sku_num))
    IN  IF RatLe(diff, tolerance) THEN ScoreGood
        ELSE IF RatLe(diff, RatMul(tolerance, RatInt(2))) THEN ScorePartial
        ELSE ScoreZero

\* numeric_compare that falls back to the raw difference when the required
\* number is 0
numeric_compare_raw_at_zero(rfp_num, sku_num) ==
    LET tolerance == IF rfp_num[1] = 0 THEN numeric_tolerance
                     ELSE RatAbs(RatMul(rfp_num, numeric_tolerance))
        diff == RatAbs(RatSub(rfp_num, sku_num))
    IN  IF RatLe(diff, tolerance) THEN ScoreGood
        ELSE IF RatLe(diff, RatMul(tolerance, RatInt(2))) THEN ScorePartial
        ELSE ScoreZero

\* the numeric branch of _compare_values
numeric_compare(rfp_num, sku_num) ==
    LET tolerance == RatAbs(RatMul(rfp_num, numeric_tolerance))
        diff == RatAbs(RatSub(rfp_num, sku_num))
    IN  IF RatLe(diff, tolerance) THEN ScoreGood
        ELSE IF RatLe(diff, RatMul(tolerance, RatInt(2))) THEN ScorePartial
        ELSE ScoreZero

\* the common-words branch without the factor 0.5
words_compare_unscaled(rfp_str, sku_str) ==
    LET rfp_words == str_words(rfp_str)
        sku_words == str_words(sku_str)
        common_words == rfp_words \cap sku_words
    IN  IF common_words # {}
        THEN Rat(Cardinality(common_words),
                 Max(Cardinality(rfp_words), Cardinality(sku_words)))
        ELSE ScoreZero

\* the common-words branch of _compare_values
words_compare(rfp_str, sku_str) ==
    LET rfp_words == str_words(rfp_str)
        sku_words == str_words(sku_str)
        common_words == rfp_words \cap sku_words
    IN  IF common_words # {}
        THEN RatMul(Rat(Cardinality(common_words),
                        Max(Cardinality(rfp_words), Cardinality(sku_words))),
                    ScorePartial)
        ELSE ScoreZero

\* _compare_values with the substring rule tried before the numeric rule
compare_values_substring_first(rfp_v, sku_v) ==
    IF ~sku_v.found THEN ScoreZero
    ELSE LET rfp_str == norm_value(rfp_v)
             sku_str == norm_value(sku_v.value)
             rfp_num == extract_number(rfp_str)
             sku_num == extract_number(sku_str)
         IN  IF rfp_str = sku_str THEN ScoreExact
             ELSE IF str_in(rfp_str, sku_str) \/ str_in(sku_str, rfp_str)
                  THEN ScoreSubstring
             ELSE IF rfp_num.found /\ sku_num.found
                  THEN numeric_compare(rfp_num.value, sku_num.value)
             ELSE words_compare(rfp_str, sku_str)

\* _compare_values that takes an empty candidate value for a missing one
compare_values_empty_as_missing(rfp_v, sku_v) ==
    IF ~sku_v.found \/ norm_value(sku_v.value) = <<>> THEN ScoreZero
    ELSE LET rfp_str == norm_value(rfp_v)
             sku_str == norm_value(sku_v.value)
             rfp_num == extract_number(rfp_str)
             sku_num == extract_number(sku_str)
         IN  IF rfp_str = sku_str THEN ScoreExact
             ELSE IF rfp_num.found /\ sku_num.found
                  THEN numeric_compare(rfp_num.value, sku_num.value)
             ELSE IF str_in(rfp_str, sku_str) \/ str_in(sku_str, rfp_str)
                  THEN ScoreSubstring
             ELSE words_compare(rfp_str, sku_str)

\* _compare_values(rfp_value, sku_value); sku_value is None or Some(string)
compare_values(rfp_v, sku_v) ==
    IF ~sku_v.found THEN ScoreZero
    ELSE LET rfp_str == norm_value(rfp_v)
             sku_str == norm_value(sku_v.value)
             rfp_num == extract_number(rfp_str)
             sku_num == extract_number(sku_str)
         IN  IF rfp_str = sku_str THEN ScoreExact
             ELSE IF rfp_num.found /\ sku_num.found
                  THEN numeric_compare(rfp_num.value, sku_num.value)
             ELSE IF str_in(rfp_str, sku_str) \/ str_in(sku_str, rfp_str)
                  THEN ScoreSubstring
             ELSE words_compare(rfp_str, sku_str)

\* _get_match_type with > where the code has >= 0.5
get_match_type_strict_partial(score) ==
    IF RatLe(<<19, 20>>, score) THEN "Exact Match"
    ELSE IF RatLe(<<3, 4>>, score) THEN "Good Match"
    ELSE IF RatLt(<<1, 2>>, score) THEN "Partial Match"
    ELSE IF RatLt(<<0, 1>>, score) THEN "Weak Match"
    ELSE "No Match"

\* _get_match_type(score)
get_match_type(score) ==
    IF RatLe(<<19, 20>>, score) THEN "Exact Match"
    ELSE IF RatLe(<<3, 4>>, score) THEN "Good Match"
    ELSE IF RatLe(<<1, 2>>, score) THEN "Partial Match"
    ELSE IF RatLt(<<0, 1>>, score) THEN "Weak Match"
    ELSE "No Match"

\* str(v) of a value that is already a string
str(v) == v

NA == <<"N", "/", "A">>

NoneStr == <<"N", "o", "n", "e">>

\* comparison_row with str(sku_value) unguarded: str(None) is "None"
comparison_row_str_none(name, rfp_v, sku_v) ==
    LET spec_score == compare_values(rfp_v, sku_v)
    IN  [spec_name |-> name,
         rfp_value |-> str(rfp_v),
         sku_value |-> IF sku_v.found THEN str(sku_v.value) ELSE NoneStr,
         match_score |-> spec_score,
         match_type |-> get_match_type(spec_score)]

\* the row compute_spec_match stores for one spec
comparison_row(name, rfp_v, sku_v) ==
    LET spec_score == compare_values(rfp_v, sku_v)
    IN  [spec_name |-> name,
         rfp_value |-> str(rfp_v),
         sku_value |-> IF sku_v.found THEN str(sku_v.value) ELSE NA,
         match_score |-> spec_score,
         match_type |-> get_match_type(spec_score)]

(***************************************************************************)
(* SpecMatchService: resolving a spec name to a candidate feature          *)
(***************************************************************************)
N_conductor_material_sp == <<"c", "o", "n", "d", "u", "c", "t", "o", "r", " ", "m", "a", "t", "e", "r", "i", "a", "l">>
N_conductor_material == <<"c", "o", "n", "d", "u", "c", "t", "o", "r", "_", "m", "a", "t", "e", "r", "i", "a", "l">>
N_conductor == <<"c", "o", "n", "d", "u", "c", "t", "o", "r">>
N_material == <<"m", "a", "t", "e", "r", "i", "a", "l">>
N_conductor_size_sp == <<"c", "o", "n", "d", "u", "c", "t", "o", "r", " ", "s", "i", "z", "e">>
N_conductor_size == <<"c", "o", "n", "d", "u", "c", "t", "o", "r", "_", "s", "i", "z", "e">>
N_size == <<"s", "i", "z", "e">>
N_cross_section == <<"c", "r", "o", "s", "s", "_", "s", "e", "c", "t", "i", "o", "n">>
N_cross_section_sp == <<"c", "r", "o", "s", "s", " ", "s", "e", "c", "t", "i", "o", "n">>
N_insulation == <<"i", "n", "s", "u", "l", "a", "t", "i", "o", "n">>
N_insulation_type == <<"i", "n", "s", "u", "l", "a", "t", "i", "o", "n", "_", "t", "y", "p", "e">>
N_insulating_material == <<"i", "n", "s", "u", "l", "a", "t", "i", "n", "g", " ", "m", "a", "t", "e", "r", "i", "a", "l">>
N_voltage == <<"v", "o", "l", "t", "a", "g", "e">>
N_voltage_grade == <<"v", "o", "l", "t", "a", "g", "e", "_", "g", "r", "a", "d", "e">>
N_rated_voltage == <<"r", "a", "t", "e", "d", " ", "v", "o", "l", "t", "a", "g", "e">>
N_voltage_rating == <<"v", "o", "l", "t", "a", "g", "e", " ", "r", "a", "t", "i", "n", "g">>
N_cores == <<"c", "o", "r", "e", "s">>
N_number_of_cores == <<"n", "u", "m", "b", "e", "r", " ", "o", "f", " ", "c", "o", "r", "e", "s">>
N_core_count == <<"c", "o", "r", "e", " ", "c", "o", "u", "n", "t">>
N_no_of_cores == <<"n", "o", " ", "o", "f", " ", "c", "o", "r", "e", "s">>
N_Voltage_Grade == <<"V", "o", "l", "t", "a", "g", "e", " ", "G", "r", "a", "d", "e">>
N_Conductor_Material == <<" ", "C", "o", "n", "d", "u", "c", "t", "o", "r", "-", "M", "a", "t", "e", "r", "i", "a", "l", " ">>
N_colour == <<"c", "o", "l", "o", "u", "r">>

\* self.synonyms, in the dict's order: <<canonical, synonyms>>
synonyms ==
    << <<N_conductor_material_sp, <<N_conductor_material, N_conductor, N_material>> >>,
       <<N_conductor_size_sp,
         <<N_conductor_size, N_size, N_cross_section, N_cross_section_sp>> >>,
       <<N_insulation, <<N_insulation_type, N_insulation, N_insulating_material>> >>,
       <<N_voltage,
         <<N_voltage_grade, N_voltage, N_rated_voltage, N_voltage_rating>> >>,
       <<N_cores, <<N_number_of_cores, N_cores, N_core_count, N_no_of_cores>> >> >>

Range(f) == {f[i] : i \in DOMAIN f}
MinOf(S) == CHOOSE x \in S : \A y \in S : x <= y

IsAlnum(c) == IsLower(c) \/ IsDigit(c)

\* re.sub(r'[^a-z0-9]+', '_', s): every maximal run of other characters
\* becomes one underscore
RECURSIVE skip_non_alnum(_)
skip_non_alnum(s) ==
    IF s # <<>> /\ ~IsAlnum(Head(s)) THEN skip_non_alnum(Tail(s)) ELSE s
RECURSIVE sub_non_alnum(_)
sub_non_alnum(s) ==
    IF s = <<>> THEN <<>>
    ELSE IF IsAlnum(Head(s)) THEN <<Head(s)>> \o sub_non_alnum(Tail(s))
    ELSE <<"_">> \o sub_non_alnum(skip_non_alnum(Tail(s)))

\* _normalize_name
normalize_name(name) ==
    LET t == sub_non_alnum(str_strip(str_lower(name)))
    IN  rstrip(lstrip(t, {"_"}), {"_"})

\* _normalize_name(feature.name) of every feature
RECURSIVE normalized_names(_)
normalized_names(features) ==
    IF features = <<>> THEN <<>>
    ELSE <<normalize_name(Head(features).name)>> \o normalized_names(Tail(features))

\* _find_matching_feature(spec_name, sku): features is sku.features, a
\* sequence of [name, value]
find_matching_feature(name, features) ==
    LET normalized_spec == normalize_name(name)
        normalized == normalized_names(features)
        exact == {i \in DOMAIN features : normalized[i] = normalized_spec}
        hits(g) == {i \in DOMAIN features : normalized[i] \in Range(synonyms[g][2])}
        groups == {g \in DOMAIN synonyms :
                      /\ \/ normalized_spec \in Range(synonyms[g][2])
                         \/ normalized_spec = synonyms[g][1]
                      /\ hits(g) # {}}
    IN  IF exact # {} THEN Some(features[MinOf(exact)].value)
        ELSE IF groups # {} THEN Some(features[MinOf(hits(MinOf(groups)))].value)
        ELSE None

(***************************************************************************)
(* SpecMatchService.compute_spec_match                                     *)
(***************************************************************************)
\* the percentage without the division by the number of specs
match_percentage_undivided(matched_score, total_specs) ==
    RatMul(matched_score, RatInt(100))

\* (matched_score / total_specs) * 100 if total_specs > 0 else 0.0
match_percentage_of(matched_score, total_specs) ==
    IF total_specs > 0
    THEN RatMul(RatDivInt(matched_score, total_specs), RatInt(100))
    ELSE RatInt(0)

\* a loop that makes a row only for the specs the SKU has a feature for
RECURSIVE spec_rows_matched_only(_, _)
spec_rows_matched_only(specs, sku) ==
    IF specs = <<>> THEN <<>>
    ELSE LET sku_v == find_matching_feature(Head(specs).name, sku.features)
         IN  (IF sku_v.found
              THEN <<comparison_row(Head(specs).name, Head(specs).value, sku_v)>>
              ELSE <<>>)
             \o spec_rows_matched_only(Tail(specs), sku)

\* the loop of compute_spec_match over rfp_item.specs.items(): the rows
RECURSIVE spec_rows(_, _)
spec_rows(specs, sku) ==
    IF specs = <<>> THEN <<>>
    ELSE <<comparison_row(Head(specs).name, Head(specs).value,
               find_matching_feature(Head(specs).name, sku.features))>>
         \o spec_rows(Tail(specs), sku)

\* the loop of compute_spec_match: matched_score, the sum of the scores
RECURSIVE matched_score_of(_)
matched_score_of(rows) ==
    IF rows = <<>> THEN RatInt(0)
    ELSE RatAdd(Head(rows).match_score, matched_score_of(Tail(rows)))

\* compute_spec_match(rfp_item, sku): item.specs is the dict in its order, a
\* sequence of [name, value]; the comparison dict is the sequence of its rows
compute_spec_match(item, sku) ==
    IF item.specs = <<>>
    THEN [match_percentage |-> RatInt(0), comparison |-> <<>>]
    ELSE LET comparison == spec_rows(item.specs, sku)
         IN  [match_percentage |->
                  match_percentage_of(matched_score_of(comparison), Len(item.specs)),
              comparison |-> comparison]

(***************************************************************************)
(* TechnicalAgent._process_rfp_item                                        *)
(***************************************************************************)
\* the number of SKUs kept (scored_skus[:3]) and of candidate columns
TopK == 3

NONE == <<"N", "O", "N", "E">>

\* round() of a non-negative rational to an integer: half to even
RoundHalfEven(r) ==
    LET q == r[1] \div r[2]
        twice == 2 * (r[1] % r[2])
    IN  IF twice < r[2] THEN q
        ELSE IF twice > r[2] THEN q + 1
        ELSE IF q % 2 = 0 THEN q ELSE q + 1

\* round(match_percent) with the digits forgotten
round2_to_integer(x) == RatInt(RoundHalfEven(x))

\* round(match_percent, 2)
round2(x) == Rat(RoundHalfEven(RatMul(x, RatInt(100))), 100)

\* _dict_to_sku(candidate)
dict_to_sku(candidate) ==
    [sku_id |-> candidate.sku_id,
     features |-> [i \in DOMAIN candidate.features |->
                      [name |-> candidate.features[i].name,
                       value |-> str(candidate.features[i].value)]]]

\* the entry appended to scored_skus for one candidate; match_percent is
\* the local of the loop, before rounding
scored_entry(item, candidate) ==
    LET sku == dict_to_sku(candidate)
        m == compute_spec_match(item, sku)
    IN  [sku_id |-> sku.sku_id,
         match_percent |-> m.match_percentage,
         spec_match_percent |-> round2(m.match_percentage),
         comparison |-> m.comparison]

\* a sort that puts an entry before the entries of equal percentage
RECURSIVE sort_ties_reversed(_)
sort_ties_reversed(s) ==
    IF s = <<>> THEN <<>>
    ELSE LET rest == sort_ties_reversed(SubSeq(s, 1, Len(s) - 1))
             x == s[Len(s)]
             k == Cardinality({i \in DOMAIN rest :
                     RatLt(x.spec_match_percent, rest[i].spec_match_percent)})
         IN  SubSeq(rest, 1, k) \o <<x>> \o SubSeq(rest, k + 1, Len(rest))

\* scored_skus.sort(key = spec_match_percent, reverse = True): list.sort is
\* stable, also with reverse = True
RECURSIVE sort_by_percent_desc(_)
sort_by_percent_desc(s) ==
    IF s = <<>> THEN <<>>
    ELSE LET rest == sort_by_percent_desc(SubSeq(s, 1, Len(s) - 1))
             x == s[Len(s)]
             k == Cardinality({i \in DOMAIN rest :
                     RatLe(x.spec_match_percent, rest[i].spec_match_percent)})
         IN  SubSeq(rest, 1, k) \o <<x>> \o SubSeq(rest, k + 1, Len(rest))

\* comparison.get(spec_name, {}).get("sku_value", "N/A")
sku_value_of(comparison, name) ==
    LET at == {i \in DOMAIN comparison : comparison[i].spec_name = name}
    IN  IF at = {} THEN NA ELSE comparison[MinOf(at)].sku_value

\* the three candidate columns of one row, padded with "N/A"
sku_values_of(top_skus, name) ==
    [k \in 1..Max(TopK, Len(top_skus)) |->
        IF k <= Len(top_skus) THEN sku_value_of(top_skus[k].comparison, name)
        ELSE NA]

\* a table that has no rows when no SKU was kept
build_comparison_table_empty_without_skus(item, top_skus) ==
    IF top_skus = <<>> THEN <<>>
    ELSE [i \in DOMAIN item.specs |->
            LET sku_values == sku_values_of(top_skus, item.specs[i].name)
            IN  [rfp_item_id |-> item.item_id,
                 spec_name |-> item.specs[i].name,
                 rfp_value |-> str(item.specs[i].value),
                 sku1_value |-> sku_values[1],
                 sku2_value |-> sku_values[2],
                 sku3_value |-> sku_values[3]]]

\* _build_comparison_table(rfp_item, top_skus)
build_comparison_table(item, top_skus) ==
    [i \in DOMAIN item.specs |->
        LET sku_values == sku_values_of(top_skus, item.specs[i].name)
        IN  [rfp_item_id |-> item.item_id,
             spec_name |-> item.specs[i].name,
             rfp_value |-> str(item.specs[i].value),
             sku1_value |-> sku_values[1],
             sku2_value |-> sku_values[2],
             sku3_value |-> sku_values[3]]]

\* the loop of _process_rfp_item over the candidates
RECURSIVE score_candidates(_, _)
score_candidates(item, cands) ==
    IF cands = <<>> THEN <<>>
    ELSE <<scored_entry(item, Head(cands))>> \o score_candidates(item, Tail(cands))

\* scored_skus of _process_rfp_item(rfp_item) after the sort, for the
\* candidates get_sku_candidates returned
sorted_scored_skus(item, cands) ==
    sort_by_percent_desc(score_candidates(item, cands))

\* a recommendation that keeps every scored SKU
recommendation_of_untruncated(item, sorted) ==
    [rfp_item_id |-> item.item_id,
     top_skus |-> [i \in DOMAIN sorted |->
                      [sku_id |-> sorted[i].sku_id,
                       spec_match_percent |-> sorted[i].spec_match_percent]],
     spec_comparison_table |-> build_comparison_table(item, sorted),
     selected_best_sku_id |-> IF sorted # <<>> THEN sorted[1].sku_id ELSE NONE]

\* the TechnicalRecommendation built from the sorted scored_skus
recommendation_of(item, sorted) ==
    LET top_3 == SubSeq(sorted, 1, IF Len(sorted) < TopK THEN Len(sorted) ELSE TopK)
    IN  [rfp_item_id |-> item.item_id,
         top_skus |-> [i \in DOMAIN top_3 |->
                          [sku_id |-> top_3[i].sku_id,
                           spec_match_percent |-> top_3[i].spec_match_percent]],
         spec_comparison_table |-> build_comparison_table(item, top_3),
         selected_best_sku_id |-> IF top_3 # <<>> THEN top_3[1].sku_id ELSE NONE]

(***************************************************************************)
(* SKURetriever.get_sku_candidates and the errors of _process_rfp_item     *)
(***************************************************************************)
\* metadata.get(key, default): a key of the metadata is None or Some(value)
metadata_get(field, default) == IF field.found THEN field.value ELSE default

\* the value under "features": its type and, for a dict, its items in order
DictOf(items) == [type |-> "dict", items |-> items]
NotADict == [type |-> "str", items |-> <<>>]

\* the candidate dict built from one source node of the response; the
\* value under "features" is held as features_type and features
candidate_of_node(node) ==
    LET f == metadata_get(node.metadata.features, DictOf(<<>>))
    IN  [sku_id |-> metadata_get(node.metadata.sku_id, <<>>),
         features |-> f.items,
         features_type |-> f.type]

RECURSIVE candidates_of_nodes(_)
candidates_of_nodes(nodes) ==
    IF nodes = <<>> THEN <<>>
    ELSE <<candidate_of_node(Head(nodes))>> \o candidates_of_nodes(Tail(nodes))

\* the candidate dicts of the SKUs of the repository
RECURSIVE candidates_of_skus(_)
candidates_of_skus(skus) ==
    IF skus = <<>> THEN <<>>
    ELSE <<[sku_id |-> Head(skus).sku_id,
            features |-> Head(skus).features,
            features_type |-> "dict"]>> \o candidates_of_skus(Tail(skus))

\* _fallback_get_all_skus(): every SKU load_skus() yields, or [] when
\* loading raises
fallback_get_all_skus(repository) ==
    IF repository.raised THEN <<>> ELSE candidates_of_skus(repository.skus)

\* a retriever that returns no candidate when the query raises
get_sku_candidates_empty_on_error(retr, response) ==
    IF ~retr.index_loaded THEN fallback_get_all_skus(retr.repository)
    ELSE IF response.raised THEN <<>>
    ELSE LET cands == candidates_of_nodes(response.source_nodes)
         IN  IF cands = <<>> THEN fallback_get_all_skus(retr.repository) ELSE cands

\* get_sku_candidates(rfp_item, top_k) for the response query_engine.query
\* gives: the fallback when the index is not loaded, when the query raises
\* and when the response has no source node
get_sku_candidates(retr, response) ==
    IF ~retr.index_loaded THEN fallback_get_all_skus(retr.repository)
    ELSE IF response.raised THEN fallback_get_all_skus(retr.repository)
    ELSE LET cands == candidates_of_nodes(response.source_nodes)
         IN  IF cands = <<>> THEN fallback_get_all_skus(retr.repository) ELSE cands

\* _dict_to_sku(candidate) raises: candidate.get("features", {}).items() on
\* a value that is not a dict
dict_to_sku_raises(candidate) == candidate.features_type # "dict"

\* the loop of _process_rfp_item raises on some candidate: nothing catches
\* it there
process_rfp_item_raises(cands) ==
    \E i \in DOMAIN cands : dict_to_sku_raises(cands[i])

\* RFP(**payload['rfp']) validates: every RFPItem has quantity > 0; item_id
\* is any str, the empty one too
rfp_validates(r) ==
    \A i \in DOMAIN r.scope_of_supply : r.scope_of_supply[i].quantity > 0

(***************************************************************************)
(* PricingTables and PricingService.price_rfp                              *)
(***************************************************************************)
\* PricingTables.get_product_price(sku_id)
get_product_price(tables, sku_id) ==
    LET at == {i \in DOMAIN tables.product_pricing :
                  tables.product_pricing[i].sku_id = sku_id}
    IN  IF at = {} THEN None ELSE Some(tables.product_pricing[MinOf(at)].unit_price)

\* PricingTables.get_test_price(test_name)
get_test_price(tables, test_name) ==
    LET at == {i \in DOMAIN tables.test_pricing :
                  str_lower(tables.test_pricing[i].test_name) = str_lower(test_name)}
    IN  IF at = {} THEN None ELSE Some(tables.test_pricing[MinOf(at)].price)

\* _find_rfp_item that gives the first item when no item has the id
find_rfp_item_or_first(r, item_id) ==
    LET at == {i \in DOMAIN r.scope_of_supply : r.scope_of_supply[i].item_id = item_id}
    IN  IF at # {} THEN Some(r.scope_of_supply[MinOf(at)])
        ELSE IF r.scope_of_supply # <<>> THEN Some(r.scope_of_supply[1])
        ELSE None

\* PricingService._find_rfp_item(rfp, item_id)
find_rfp_item(r, item_id) ==
    LET at == {i \in DOMAIN r.scope_of_supply : r.scope_of_supply[i].item_id = item_id}
    IN  IF at = {} THEN None ELSE Some(r.scope_of_supply[MinOf(at)])

\* a first loop that prices only the recommendations that selected a SKU
RECURSIVE material_lines_skip_none(_, _, _)
material_lines_skip_none(r, recommendations, tables) ==
    IF recommendations = <<>> THEN <<>>
    ELSE LET rec == Head(recommendations)
             item == find_rfp_item(r, rec.rfp_item_id)
             sku_id == rec.selected_best_sku_id
             looked_up == get_product_price(tables, sku_id)
             unit_price == IF looked_up.found THEN looked_up.value ELSE RatInt(0)
             material_cost == RatMul(RatInt(item.value.quantity), unit_price)
             rest == material_lines_skip_none(r, Tail(recommendations), tables)
         IN  IF ~item.found \/ sku_id = NONE THEN rest
             ELSE <<[rfp_item_id |-> item.value.item_id,
                     sku_id |-> sku_id,
                     quantity |-> item.value.quantity,
                     unit_price |-> unit_price,
                     material_cost |-> material_cost,
                     allocated_test_cost |-> RatInt(0),
                     total_cost |-> material_cost]>> \o rest

\* a first loop that leaves out the recommendations whose SKU has no price
RECURSIVE material_lines_skip_unpriced(_, _, _)
material_lines_skip_unpriced(r, recommendations, tables) ==
    IF recommendations = <<>> THEN <<>>
    ELSE LET rec == Head(recommendations)
             item == find_rfp_item(r, rec.rfp_item_id)
             sku_id == rec.selected_best_sku_id
             looked_up == get_product_price(tables, sku_id)
             material_cost == RatMul(RatInt(item.value.quantity), looked_up.value)
             rest == material_lines_skip_unpriced(r, Tail(recommendations), tables)
         IN  IF ~item.found \/ ~looked_up.found THEN rest
             ELSE <<[rfp_item_id |-> item.value.item_id,
                     sku_id |-> sku_id,
                     quantity |-> item.value.quantity,
                     unit_price |-> looked_up.value,
                     material_cost |-> material_cost,
                     allocated_test_cost |-> RatInt(0),
                     total_cost |-> material_cost]>> \o rest

\* the first loop of price_rfp: the lines, test cost not yet allocated
RECURSIVE material_lines(_, _, _)
material_lines(r, recommendations, tables) ==
    IF recommendations = <<>> THEN <<>>
    ELSE LET rec == Head(recommendations)
             item == find_rfp_item(r, rec.rfp_item_id)
             sku_id == rec.selected_best_sku_id
             looked_up == get_product_price(tables, sku_id)
             unit_price == IF looked_up.found THEN looked_up.value ELSE RatInt(0)
             material_cost == RatMul(RatInt(item.value.quantity), unit_price)
             rest == material_lines(r, Tail(recommendations), tables)
         IN  IF ~item.found THEN rest
             ELSE <<[rfp_item_id |-> item.value.item_id,
                     sku_id |-> sku_id,
                     quantity |-> item.value.quantity,
                     unit_price |-> unit_price,
                     material_cost |-> material_cost,
                     allocated_test_cost |-> RatInt(0),
                     total_cost |-> material_cost]>> \o rest

\* total_material_cost, accumulated over the lines
RECURSIVE sum_material_cost(_)
sum_material_cost(lines) ==
    IF lines = <<>> THEN RatInt(0)
    ELSE RatAdd(Head(lines).material_cost, sum_material_cost(Tail(lines)))

\* the second loop of price_rfp: total_test_cost
RECURSIVE sum_test_cost(_, _)
sum_test_cost(test_requirements, tables) ==
    IF test_requirements = <<>> THEN RatInt(0)
    ELSE LET looked_up == get_test_price(tables, Head(test_requirements).test_name)
             test_price == IF looked_up.found THEN looked_up.value ELSE RatInt(0)
         IN  RatAdd(test_price, sum_test_cost(Tail(test_requirements), tables))

\* a proportion that is 0 when there is no material cost to share by
proportion_zero_without_material(material_cost, total_material_cost, n_lines) ==
    IF RatLt(RatInt(0), total_material_cost)
    THEN Rat(material_cost[1] * total_material_cost[2],
             material_cost[2] * total_material_cost[1])
    ELSE RatInt(0)

\* a proportion that is 1 / len(lines) whatever the material costs are
proportion_equal_split(material_cost, total_material_cost, n_lines) ==
    Rat(1, n_lines)

\* a proportion that is 1 when there is no material cost to share by
proportion_whole_without_material(material_cost, total_material_cost, n_lines) ==
    IF RatLt(RatInt(0), total_material_cost)
    THEN Rat(material_cost[1] * total_material_cost[2],
             material_cost[2] * total_material_cost[1])
    ELSE RatInt(1)

\* line.material_cost / total_material_cost if total_material_cost > 0
\* else 1.0 / len(lines)
proportion_of(material_cost, total_material_cost, n_lines) ==
    IF RatLt(RatInt(0), total_material_cost)
    THEN Rat(material_cost[1] * total_material_cost[2],
             material_cost[2] * total_material_cost[1])
    ELSE Rat(1, n_lines)

\* an allocation that leaves total_cost at the material cost
RECURSIVE allocate_test_cost_stale_total(_, _, _, _)
allocate_test_cost_stale_total(lines, total_material_cost, total_test_cost, n_lines) ==
    IF lines = <<>> THEN <<>>
    ELSE LET line == Head(lines)
             proportion == proportion_of(line.material_cost, total_material_cost, n_lines)
             allocated == RatMul(total_test_cost, proportion)
         IN  <<[line EXCEPT !.allocated_test_cost = allocated]>>
             \o allocate_test_cost_stale_total(Tail(lines), total_material_cost,
                                               total_test_cost, n_lines)

\* the third loop of price_rfp: the allocation of the test cost
RECURSIVE allocate_test_cost(_, _, _, _)
allocate_test_cost(lines, total_material_cost, total_test_cost, n_lines) ==
    IF lines = <<>> THEN <<>>
    ELSE LET line == Head(lines)
             proportion == proportion_of(line.material_cost, total_material_cost, n_lines)
             allocated == RatMul(total_test_cost, proportion)
         IN  <<[line EXCEPT !.allocated_test_cost = allocated,
                            !.total_cost = RatAdd(line.material_cost, allocated)]>>
             \o allocate_test_cost(Tail(lines), total_material_cost,
                                   total_test_cost, n_lines)

\* PricingService.price_rfp(rfp, technical_output)
price_rfp(r, tech, tables) ==
    LET lines == material_lines(r, tech.recommendations, tables)
        total_material_cost == sum_material_cost(lines)
        total_test_cost == sum_test_cost(r.test_requirements, tables)
    IN  [lines |-> IF lines # <<>> /\ RatLt(RatInt(0), total_test_cost)
                   THEN allocate_test_cost(lines, total_material_cost,
                                           total_test_cost, Len(lines))
                   ELSE lines,
         total_material_cost |-> total_material_cost,
         total_test_cost |-> total_test_cost,
         grand_total |-> RatAdd(total_material_cost, total_test_cost)]

(***************************************************************************)
(* Values the comparison is exercised on                                   *)
(***************************************************************************)
V_Copper == <<"C", "o", "p", "p", "e", "r">>
V_copper_sp == <<" ", "c", "o", "p", "p", "e", "r", " ">>
V_COPPER_alloy == <<"C", "O", "P", "P", "E", "R", " ", "a", "l", "l", "o", "y">>
V_Aluminium == <<"A", "l", "u", "m", "i", "n", "i", "u", "m">>
V_1_1_kV == <<"1", ".", "1", " ", "k", "V">>
V_1_05_kV == <<"1", ".", "0", "5", " ", "k", "V">>
V_1_2_kV == <<"1", ".", "2", " ", "k", "V">>
V_1_1 == <<"1", ".", "1">>
V_100 == <<"1", "0", "0">>
V_108 == <<"1", "0", "8">>
V_110 == <<"1", "1", "0">>
V_120 == <<"1", "2", "0">>
V_125 == <<"1", "2", "5">>
V_90 == <<"9", "0">>
V_0 == <<"0">>
V_0_0 == <<"0", ".", "0">>
V_0_05 == <<"0", ".", "0", "5">>
V_0_15 == <<"0", ".", "1", "5">>
V_0_3 == <<"0", ".", "3">>
V_empty == <<>>
V_xlpe_pvc == <<"x", "l", "p", "e", " ", "p", "v", "c">>
V_pvc_fr == <<"P", "V", "C", " ", "f", "r">>
V_neg5 == <<"-", "5">>
V_5 == <<"5">>
V_blank == <<" ", " ">>

Values ==
    { V_Copper, V_copper_sp, V_COPPER_alloy, V_Aluminium, V_1_1_kV, V_1_05_kV,
      V_1_2_kV, V_1_1, V_100, V_108, V_110, V_120, V_125, V_90, V_0, V_0_0,
      V_0_05, V_0_15, V_0_3, V_empty, V_xlpe_pvc, V_pvc_fr, V_neg5, V_5,
      V_blank }

NoRow == [spec_name |-> <<>>, rfp_value |-> <<>>, sku_value |-> <<>>,
          match_score |-> ScoreZero, match_type |-> "-"]

IdleCmp == rfp_value = <<>> /\ sku_value = None /\ cmp_out = NoRow
IdleFind == spec_name = <<>> /\ sku_features = <<>> /\ found_value = None

NoItem == [item_id |-> "", quantity |-> 0, specs |-> <<>>]
NoRecommendation ==
    [rfp_item_id |-> "", top_skus |-> <<>>, spec_comparison_table |-> <<>>,
     selected_best_sku_id |-> <<>>]
NoResponse == [raised |-> FALSE, source_nodes |-> <<>>]
NoRetriever ==
    [index_loaded |-> FALSE, repository |-> [raised |-> FALSE, skus |-> <<>>],
     response |-> NoResponse]
\* no getter of a module-level service is being called
NoServices == [getter |-> "", instance |-> 0, created |-> 0, threads |-> <<>>]

IdleTech ==
    /\ rfp_item = NoItem
    /\ candidates = <<>>
    /\ scored_skus = <<>>
    /\ recommendation = NoRecommendation
    /\ retriever = NoRetriever
    /\ services = NoServices

NoOutput == [lines |-> <<>>, total_material_cost |-> RatInt(0),
             total_test_cost |-> RatInt(0), grand_total |-> RatInt(0)]
IdlePrice ==
    /\ rfp = [scope_of_supply |-> <<>>, test_requirements |-> <<>>]
    /\ technical_output = [recommendations |-> <<>>]
    /\ pricing_tables = [product_pricing |-> <<>>, test_pricing |-> <<>>]
    /\ pricing_output = NoOutput

\* more features than this are not drawn for one candidate
MaxFeatures == 2

\* the names of the synonym table, and names outside it
Names ==
    UNION {{synonyms[g][1]} \cup Range(synonyms[g][2]) : g \in DOMAIN synonyms}
        \cup {N_Voltage_Grade, N_Conductor_Material, N_colour}

\* a feature carries its own name as its value, which tells the features of
\* one candidate apart in the result
Feature(n) == [name |-> n, value |-> n]

\* the feature lists of SKU objects: the names are the keys of a dict
FeatureLists ==
    {f \in UNION {[1..n -> {Feature(x) : x \in Names}] : n \in 0..MaxFeatures} :
        \A i, j \in DOMAIN f : i # j => f[i].name # f[j].name}

(***************************************************************************)
(* SpecCompare: _compare_values and _get_match_type on one pair            *)
(***************************************************************************)
InitCompare ==
    /\ pc = "start"
    /\ rfp_value \in Values
    /\ sku_value \in {None} \cup {Some(v) : v \in Values}
    /\ cmp_out = NoRow
    /\ IdleFind
    /\ IdleTech
    /\ IdlePrice

CompareValues ==
    /\ pc = "start"
    /\ cmp_out' = comparison_row(<<>>, rfp_value, sku_value)
    /\ pc' = "done"
    /\ UNCHANGED <<rfp_value, sku_value, findVars, techVars, priceVars>>

NextCompare == CompareValues

SpecCompare == InitCompare /\ [][NextCompare]_vars

(***************************************************************************)
(* SpecFind: _find_matching_feature on one spec name and one candidate     *)
(***************************************************************************)
InitFind ==
    /\ pc = "start"
    /\ spec_name \in Names
    /\ sku_features \in FeatureLists
    /\ found_value = None
    /\ IdleCmp
    /\ IdleTech
    /\ IdlePrice

FindMatchingFeature ==
    /\ pc = "start"
    /\ found_value' = find_matching_feature(spec_name, sku_features)
    /\ pc' = "done"
    /\ UNCHANGED <<spec_name, sku_features, cmpVars, techVars, priceVars>>

NextFind == FindMatchingFeature

SpecFind == InitFind /\ [][NextFind]_vars

(***************************************************************************)
(* SpecTech: _process_rfp_item on one RFP item and one retrieval result    *)
(***************************************************************************)
\* an item declares at most MaxSpecs specs; the retriever returns at most
\* MaxCandidates candidates
MaxSpecs == 3
MaxCandidates == 4

ID_SKU_A == <<"S", "K", "U", "-", "A">>
ID_SKU_B == <<"S", "K", "U", "-", "B">>
ID_SKU_C == <<"S", "K", "U", "-", "C">>
ID_SKU_D == <<"S", "K", "U", "-", "D">>
ID_SKU_E == <<"S", "K", "U", "-", "E">>
\* the id of SKU-A as a source that writes ids in lower case has it
ID_sku_a == <<"s", "k", "u", "-", "a">>

\* the specs an item may require
SpecMaterial == [name |-> N_conductor_material, value |-> V_Copper]
SpecVoltage == [name |-> N_voltage_grade, value |-> V_1_1_kV]
SpecInsulation == [name |-> N_insulation, value |-> V_xlpe_pvc]
SpecColour == [name |-> N_colour, value |-> V_Aluminium]
SpecPairs == {SpecMaterial, SpecVoltage, SpecInsulation, SpecColour}

\* RFP items: specs is a dict, so its names are distinct
Items ==
    { [item_id |-> "ITEM-1", quantity |-> 1, specs |-> sp] : sp \in
        { f \in UNION {[1..n -> SpecPairs] : n \in 0..MaxSpecs} :
            \A i, j \in DOMAIN f : i # j => f[i].name # f[j].name } }

\* the catalog the retriever draws from
Catalog ==
    { [sku_id |-> ID_SKU_A,
       features |-> << [name |-> N_conductor_material, value |-> V_COPPER_alloy],
                       [name |-> N_voltage_grade, value |-> V_1_05_kV],
                       [name |-> N_insulation_type, value |-> V_pvc_fr] >>],
      [sku_id |-> ID_SKU_B,
       features |-> << [name |-> N_Conductor_Material, value |-> V_Copper],
                       [name |-> N_voltage, value |-> V_1_05_kV] >>],
      [sku_id |-> ID_SKU_C,
       features |-> << [name |-> N_conductor, value |-> V_copper_sp],
                       [name |-> N_Voltage_Grade, value |-> V_1_2_kV],
                       [name |-> N_insulation, value |-> V_xlpe_pvc] >>],
      [sku_id |-> ID_SKU_D,
       features |-> << [name |-> N_material, value |-> V_Aluminium],
                       [name |-> N_voltage_grade, value |-> V_1_2_kV] >>],
      [sku_id |-> ID_SKU_E, features |-> <<>>] }

\* retrieval results: distinct SKUs of the catalog in any order
Retrievals ==
    { c \in UNION {[1..n -> Catalog] : n \in 0..MaxCandidates} :
        \A i, j \in DOMAIN c : i # j => c[i] # c[j] }

InitTech ==
    /\ pc = "start"
    /\ rfp_item \in Items
    /\ candidates \in Retrievals
    /\ scored_skus = <<>>
    /\ recommendation = NoRecommendation
    /\ retriever = NoRetriever
    /\ services = NoServices
    /\ IdleCmp
    /\ IdleFind
    /\ IdlePrice

ProcessRfpItem ==
    /\ pc = "start"
    /\ scored_skus' = sorted_scored_skus(rfp_item, candidates)
    /\ recommendation' = recommendation_of(rfp_item, scored_skus')
    /\ pc' = "done"
    /\ UNCHANGED <<rfp_item, candidates, retriever, services,
                   cmpVars, findVars, priceVars>>

NextTech == ProcessRfpItem

SpecTech == InitTech /\ [][NextTech]_vars

(***************************************************************************)
(* SpecPrice: price_rfp on one RFP, one technical output, one set of       *)
(* pricing tables                                                          *)
(***************************************************************************)
\* a technical output holds at most MaxRecs recommendations
MaxRecs == 2

T_Routine_Tests == <<"R", "o", "u", "t", "i", "n", "e", " ", "T", "e", "s", "t", "s">>
T_routine_tests == <<"r", "o", "u", "t", "i", "n", "e", " ", "t", "e", "s", "t", "s">>
T_Type_Test == <<"T", "y", "p", "e", " ", "T", "e", "s", "t">>
T_Unknown == <<"U", "n", "k", "n", "o", "w", "n">>

PricedItem(id, q) == [item_id |-> id, quantity |-> q, specs |-> <<>>]
Quantities == {1, 2}

\* the RFPs priced: no item, ITEM-1, or ITEM-1 and ITEM-2
Scopes ==
    {<<>>} \cup {<<PricedItem("ITEM-1", q)>> : q \in Quantities}
           \cup {<<PricedItem("ITEM-1", q[1]), PricedItem("ITEM-2", q[2])>> :
                    q \in Quantities \X Quantities}

TestReq(n) == [test_name |-> n]
TestRequirementLists ==
    { <<>>, <<TestReq(T_Routine_Tests)>>, <<TestReq(T_routine_tests)>>,
      <<TestReq(T_Unknown)>>, <<TestReq(T_Routine_Tests), TestReq(T_Type_Test)>> }

\* recommendations: for an item of the RFP or for an unknown item; a SKU
\* with a price, the same id in lower case, a SKU without a price, or "NONE"
Recommendation(id, sku) ==
    [rfp_item_id |-> id, top_skus |-> <<>>, spec_comparison_table |-> <<>>,
     selected_best_sku_id |-> sku]
RecommendationPool ==
    {Recommendation(id, sku) :
        id \in {"ITEM-1", "ITEM-2", "ITEM-9"},
        sku \in {ID_SKU_A, ID_sku_a, ID_SKU_B, NONE}}
RecommendationLists == UNION {[1..n -> RecommendationPool] : n \in 0..MaxRecs}

\* unit and test prices are > 0 (PricingLine, TestPricingLine)
PricingTablesPool ==
    { [product_pricing |-> << [sku_id |-> ID_SKU_A, unit_price |-> RatInt(3)] >>,
       test_pricing |-> << [test_name |-> T_Routine_Tests, price |-> RatInt(6)],
                           [test_name |-> T_Type_Test, price |-> RatInt(4)] >>],
      [product_pricing |-> <<>>,
       test_pricing |-> << [test_name |-> T_Routine_Tests, price |-> RatInt(6)] >>] }

InitPrice ==
    /\ pc = "start"
    /\ rfp \in [scope_of_supply : Scopes, test_requirements : TestRequirementLists]
    /\ technical_output \in [recommendations : RecommendationLists]
    /\ pricing_tables \in PricingTablesPool
    /\ pricing_output = NoOutput
    /\ IdleCmp
    /\ IdleFind
    /\ IdleTech

\* a price_rfp that consumes the recommendations it prices
PriceRfp_consuming_recommendations ==
    /\ pc = "start"
    /\ pricing_output' = price_rfp(rfp, technical_output, pricing_tables)
    /\ technical_output' = [recommendations |-> <<>>]
    /\ pc' = "done"
    /\ UNCHANGED <<rfp, pricing_tables, cmpVars, findVars, techVars>>

PriceRfp ==
    /\ pc = "start"
    /\ pricing_output' = price_rfp(rfp, technical_output, pricing_tables)
    /\ pc' = "done"
    /\ UNCHANGED <<rfp, technical_output, pricing_tables, cmpVars, findVars, techVars>>

NextPrice == PriceRfp

SpecPrice == InitPrice /\ [][NextPrice]_vars

(***************************************************************************)
(* Spec: TechnicalAgent.run over the items of an RFP, then                 *)
(* PricingAgent.run (price_rfp) on its output                              *)
(***************************************************************************)
\* the quantity, the candidate and the prices of the end-to-end example:
\* 1000 units, a SKU of copper at 1.05 kV, 120 per unit, a test at 5000
ScenarioQuantity == 1000
ID_SKU_F == <<"S", "K", "U", "-", "F">>
ScenarioSku ==
    [sku_id |-> ID_SKU_F,
     features |-> << [name |-> N_conductor_material, value |-> V_Copper],
                     [name |-> N_voltage_grade, value |-> V_1_05_kV] >>]
ScenarioTables ==
    [product_pricing |-> << [sku_id |-> ID_SKU_F, unit_price |-> RatInt(120)] >>,
     test_pricing |-> << [test_name |-> T_Routine_Tests, price |-> RatInt(5000)] >>]

\* the RFPs of the pipeline: up to two items with required specs
PipelineScopes ==
    {<<>>}
    \cup {<<[item_id |-> "ITEM-1", quantity |-> q,
             specs |-> <<SpecMaterial, SpecVoltage>>]>> :
                q \in Quantities \cup {ScenarioQuantity}}
    \cup {<<[item_id |-> "ITEM-1", quantity |-> q,
             specs |-> <<SpecMaterial, SpecVoltage>>],
            [item_id |-> "ITEM-2", quantity |-> 1,
             specs |-> <<SpecInsulation>>]>> : q \in Quantities}
    \cup {<<[item_id |-> "ITEM-2", quantity |-> 1,
             specs |-> <<SpecInsulation>>],
            [item_id |-> "ITEM-1", quantity |-> 1,
             specs |-> <<SpecMaterial, SpecVoltage>>]>>}

\* what the retriever returns for one item of the pipeline
PipelineRetrievals == {c \in Retrievals : Len(c) <= 2} \cup {<<ScenarioSku>>}

\* the pricing tables of the pipeline
PipelineTables == PricingTablesPool \cup {ScenarioTables}

Init ==
    /\ pc = "technical"
    /\ rfp \in [scope_of_supply : PipelineScopes,
                test_requirements : TestRequirementLists]
    /\ technical_output = [recommendations |-> <<>>]
    /\ pricing_tables \in PipelineTables
    /\ pricing_output = NoOutput
    /\ IdleCmp
    /\ IdleFind
    /\ IdleTech

\* an iteration whose scoring also sees the candidates of the item before
RunProcessItem_shared_candidates ==
    /\ pc = "technical"
    /\ Len(technical_output.recommendations) < Len(rfp.scope_of_supply)
    /\ \E cands \in PipelineRetrievals :
          /\ rfp_item' = rfp.scope_of_supply[Len(technical_output.recommendations) + 1]
          /\ candidates' = cands
          /\ scored_skus' = sorted_scored_skus(rfp_item', candidates \o cands)
          /\ recommendation' = recommendation_of(rfp_item', scored_skus')
          /\ technical_output' =
                [recommendations |->
                    Append(technical_output.recommendations, recommendation')]
    /\ UNCHANGED <<pc, rfp, pricing_tables, pricing_output, retriever, services,
                   cmpVars, findVars>>

\* one iteration of the loop of TechnicalAgent.run: _process_rfp_item on the
\* next item of scope_of_supply
RunProcessItem ==
    /\ pc = "technical"
    /\ Len(technical_output.recommendations) < Len(rfp.scope_of_supply)
    /\ \E cands \in PipelineRetrievals :
          /\ rfp_item' = rfp.scope_of_supply[Len(technical_output.recommendations) + 1]
          /\ candidates' = cands
          /\ scored_skus' = sorted_scored_skus(rfp_item', cands)
          /\ recommendation' = recommendation_of(rfp_item', scored_skus')
          /\ technical_output' =
                [recommendations |->
                    Append(technical_output.recommendations, recommendation')]
    /\ UNCHANGED <<pc, rfp, pricing_tables, pricing_output, retriever, services,
                   cmpVars, findVars>>

\* TechnicalAgent.run returns its output
RunTechnicalDone ==
    /\ pc = "technical"
    /\ Len(technical_output.recommendations) = Len(rfp.scope_of_supply)
    /\ pc' = "pricing"
    /\ UNCHANGED <<cmpVars, findVars, techVars, priceVars>>

\* PricingAgent.run: price_rfp on the RFP and the technical output
RunPriceRfp ==
    /\ pc = "pricing"
    /\ pricing_output' = price_rfp(rfp, technical_output, pricing_tables)
    /\ pc' = "done"
    /\ UNCHANGED <<rfp, technical_output, pricing_tables, cmpVars, findVars, techVars>>

Next == RunProcessItem \/ RunTechnicalDone \/ RunPriceRfp

Spec == Init /\ [][Next]_vars

(***************************************************************************)
(* SpecBatch: TechnicalAgent.run on a payload whose items may be invalid,  *)
(* with a retriever whose index, query and repository may fail             *)
(***************************************************************************)
\* a payload holds at most MaxItems items
MaxItems == 2

\* items of the payload: quantity 0 is invalid, "" is the empty identifier
BatchItems ==
    { [item_id |-> id, quantity |-> q, specs |-> <<SpecMaterial, SpecVoltage>>] :
        id \in {"ITEM-1", "ITEM-2", ""}, q \in {0, 1} }
BatchScopes == UNION {[1..n -> BatchItems] : n \in 0..MaxItems}

CatalogSku(id) == CHOOSE sku \in Catalog : sku.sku_id = id

\* source nodes: SKU-A, SKU-B, a node whose "features" is not a dict, a
\* node without "sku_id"
NodeOf(sku_id, features) == [metadata |-> [sku_id |-> sku_id, features |-> features]]
NodeA == NodeOf(Some(ID_SKU_A), Some(DictOf(CatalogSku(ID_SKU_A).features)))
NodeB == NodeOf(Some(ID_SKU_B), Some(DictOf(CatalogSku(ID_SKU_B).features)))
NodeNotADict == NodeOf(Some(ID_SKU_C), Some(NotADict))
NodeNoId == NodeOf(None, Some(DictOf(CatalogSku(ID_SKU_D).features)))

\* what query_engine.query gives for one item
Responses ==
    { [raised |-> TRUE, source_nodes |-> <<>>],
      [raised |-> FALSE, source_nodes |-> <<>>],
      [raised |-> FALSE, source_nodes |-> <<NodeB, NodeA>>],
      [raised |-> FALSE, source_nodes |-> <<NodeA, NodeNotADict>>],
      [raised |-> FALSE, source_nodes |-> <<NodeNoId>>] }

\* what load_skus() yields
Repositories ==
    { [raised |-> TRUE, skus |-> <<>>],
      [raised |-> FALSE, skus |-> <<>>],
      [raised |-> FALSE, skus |-> <<CatalogSku(ID_SKU_C), CatalogSku(ID_SKU_A)>>] }

InitBatch ==
    /\ pc = "parse"
    /\ rfp \in [scope_of_supply : BatchScopes, test_requirements : {<<>>}]
    /\ technical_output = [recommendations |-> <<>>]
    /\ pricing_tables = [product_pricing |-> <<>>, test_pricing |-> <<>>]
    /\ pricing_output = NoOutput
    /\ rfp_item = NoItem
    /\ candidates = <<>>
    /\ scored_skus = <<>>
    /\ recommendation = NoRecommendation
    /\ retriever \in [index_loaded : BOOLEAN, repository : Repositories,
                      response : {NoResponse}]
    /\ services = NoServices
    /\ IdleCmp
    /\ IdleFind

\* rfp = RFP(**payload['rfp']): a ValidationError leaves run through its
\* except clause, which logs and raises again
BatchParse ==
    /\ pc = "parse"
    /\ pc' = IF rfp_validates(rfp) THEN "technical" ELSE "raised"
    /\ UNCHANGED <<cmpVars, findVars, techVars, priceVars>>

\* one iteration of the loop of run: _process_rfp_item on the next item; an
\* exception of the candidate loop leaves _process_rfp_item and run
BatchProcessItem ==
    /\ pc = "technical"
    /\ Len(technical_output.recommendations) < Len(rfp.scope_of_supply)
    /\ \E response \in Responses :
          LET item == rfp.scope_of_supply[Len(technical_output.recommendations) + 1]
              cands == get_sku_candidates(retriever, response)
          IN  /\ retriever' = [retriever EXCEPT !.response = response]
              /\ rfp_item' = item
              /\ candidates' = cands
              /\ IF process_rfp_item_raises(cands)
                 THEN /\ pc' = "raised"
                      /\ scored_skus' = <<>>
                      /\ recommendation' = NoRecommendation
                      /\ UNCHANGED technical_output
                 ELSE /\ pc' = "technical"
                      /\ scored_skus' = sorted_scored_skus(item, cands)
                      /\ recommendation' = recommendation_of(item, scored_skus')
                      /\ technical_output' =
                            [recommendations |->
                                Append(technical_output.recommendations,
                                       recommendation')]
    /\ UNCHANGED <<rfp, pricing_tables, pricing_output, services,
                   cmpVars, findVars>>

\* run returns its output
BatchReturn ==
    /\ pc = "technical"
    /\ Len(technical_output.recommendations) = Len(rfp.scope_of_supply)
    /\ pc' = "returned"
    /\ UNCHANGED <<cmpVars, findVars, techVars, priceVars>>

NextBatch == BatchParse \/ BatchProcessItem \/ BatchReturn

SpecBatch == InitBatch /\ [][NextBatch]_vars

(***************************************************************************)
(* The getters of the module-level services, called from several threads   *)
(*     global _x                                                           *)
(*     if _x is None:                                                      *)
(*         _x = X()                                                        *)
(*     return _x                                                           *)
(* The interpreter may switch threads between any two of these steps, and  *)
(* no lock is taken.  An instance is held as its number, None as 0.        *)
(***************************************************************************)
MaxThreads == 2
MaxCalls == 2

\* the getters with this body
Getters == {"get_spec_match_service", "get_sku_retriever", "get_workflow"}

\* a thread that has not called the getter yet
IdleThread == [at |-> "idle", local |-> 0, returned |-> <<>>]

InitServices ==
    /\ pc = "getters"
    /\ services \in [getter : Getters, instance : {0}, created : {0},
                     threads : {[t \in 1..MaxThreads |-> IdleThread]}]
    /\ rfp_item = NoItem
    /\ candidates = <<>>
    /\ scored_skus = <<>>
    /\ recommendation = NoRecommendation
    /\ retriever = NoRetriever
    /\ IdleCmp
    /\ IdleFind
    /\ IdlePrice

\* what a call of a getter leaves alone
servicesOthers == <<pc, rfp_item, candidates, scored_skus, recommendation,
                    retriever, cmpVars, findVars, priceVars>>

\* if _x is None: the thread reads the global and takes a branch
GetterTest(t) ==
    /\ services.threads[t].at = "idle"
    /\ Len(services.threads[t].returned) < MaxCalls
    /\ services' = [services EXCEPT !.threads[t].at =
                        IF services.instance = 0 THEN "construct" ELSE "return"]
    /\ UNCHANGED servicesOthers

\* X(): the thread constructs a new instance
GetterConstruct(t) ==
    /\ services.threads[t].at = "construct"
    /\ services' = [services EXCEPT !.created = @ + 1,
                                    !.threads[t].local = services.created + 1,
                                    !.threads[t].at = "assign"]
    /\ UNCHANGED servicesOthers

\* _x = ...: the thread stores the instance it constructed in the global
GetterAssign(t) ==
    /\ services.threads[t].at = "assign"
    /\ services' = [services EXCEPT !.instance = services.threads[t].local,
                                    !.threads[t].at = "return"]
    /\ UNCHANGED servicesOthers

\* return _x: the thread reads the global again and returns it
GetterReturn(t) ==
    /\ services.threads[t].at = "return"
    /\ services' = [services EXCEPT !.threads[t].returned =
                                        Append(@, services.instance),
                                    !.threads[t].local = 0,
                                    !.threads[t].at = "idle"]
    /\ UNCHANGED servicesOthers

NextServices ==
    \/ \E t \in 1..MaxThreads : GetterTest(t)
    \/ \E t \in 1..MaxThreads : GetterConstruct(t)
    \/ \E t \in 1..MaxThreads : GetterAssign(t)
    \/ \E t \in 1..MaxThreads : GetterReturn(t)

SpecServices == InitServices /\ [][NextServices]_vars

(***************************************************************************)
(* Properties of the value comparison (checked under SpecCompare)          *)
(***************************************************************************)
\* the pair of strings the comparison works on, and their numeric tokens
CmpDone == pc = "done" /\ sku_value.found
CmpRfpStr == str_strip(str_lower(rfp_value))
CmpSkuStr == str_strip(str_lower(sku_value.value))
CmpA == extract_number(CmpRfpStr)
CmpB == extract_number(CmpSkuStr)
CmpNumeric == CmpDone /\ CmpRfpStr # CmpSkuStr /\ CmpA.found /\ CmpB.found
\* |a - b| <= k * t * |a| with t = 1/10, i.e. relative difference <= k * t
WithinRel(a, b, k) ==
    RatLe(RatMul(RatInt(10), RatAbs(RatSub(a, b))), RatMul(RatInt(k), RatAbs(a)))

\* C6: a required value and a candidate value whose lowercased, trimmed
\* strings are equal score 1.0 and are classified "Exact Match", whatever
\* the numeric, substring and token rules would say of them.
C6_EqualStringsExactMatch ==
    (CmpDone /\ CmpRfpStr = CmpSkuStr)
        => cmp_out.match_score = <<1, 1>> /\ cmp_out.match_type = "Exact Match"

C6_Witness ==
    /\ pc = "done"
    /\ rfp_value = V_Copper
    /\ sku_value = Some(V_copper_sp)
    /\ cmp_out.match_score = <<1, 1>>

\* C7: unequal strings that both hold a number, required number a # 0:
\* the score is 0.8 when |a-b|/|a| <= 10%, 0.5 when it is in (10%, 20%] and
\* 0.0 beyond; (100, 108) scores 0.8 and (100, 125) scores 0.0.  The base of
\* the relative difference is the required number.
C7_NumericTolerance ==
    /\ (CmpNumeric /\ CmpA.value[1] # 0) =>
          cmp_out.match_score =
              IF WithinRel(CmpA.value, CmpB.value, 1) THEN <<4, 5>>
              ELSE IF WithinRel(CmpA.value, CmpB.value, 2) THEN <<1, 2>>
              ELSE <<0, 1>>
    /\ (pc = "done" /\ rfp_value = V_100 /\ sku_value = Some(V_108))
          => cmp_out.match_score = <<4, 5>>
    /\ (pc = "done" /\ rfp_value = V_100 /\ sku_value = Some(V_125))
          => cmp_out.match_score = <<0, 1>>

C7_Witness ==
    /\ pc = "done"
    /\ rfp_value = V_90
    /\ sku_value = Some(V_100)
    /\ cmp_out.match_score = <<1, 2>>
    /\ cmp_out.match_type = "Partial Match"

\* C8 as claimed: with required number 0 the raw difference |b| is compared
\* with the tolerance: |b| <= 0.1 scores 0.8, 0.1 < |b| <= 0.2 scores 0.5,
\* anything else 0.0.
C8_RawDifferenceAtZero ==
    (CmpNumeric /\ CmpA.value[1] = 0) =>
        cmp_out.match_score =
            IF RatLe(RatAbs(CmpB.value), <<1, 10>>) THEN <<4, 5>>
            ELSE IF RatLe(RatAbs(CmpB.value), <<2, 10>>) THEN <<1, 2>>
            ELSE <<0, 1>>

\* C8 amended: with required number 0 the tolerance |a| * t is 0: a
\* candidate number equal to 0 scores 0.8 and every other candidate number
\* scores 0.0 (0.5 is never returned).
C8_ZeroToleranceAtZero ==
    (CmpNumeric /\ CmpA.value[1] = 0) =>
        cmp_out.match_score = IF CmpB.value[1] = 0 THEN <<4, 5>> ELSE <<0, 1>>

C8_Witness ==
    /\ pc = "done"
    /\ rfp_value = V_0
    /\ sku_value = Some(V_0_05)
    /\ cmp_out.match_score = <<0, 1>>
    /\ cmp_out.match_type = "No Match"

(***************************************************************************)
(* Properties of the name resolution (checked under SpecFind)              *)
(***************************************************************************)
\* the names of one synonym group: the canonical key and the names listed
GroupNames(g) == {synonyms[g][1]} \cup Range(synonyms[g][2])

\* C9: a spec name resolves to a candidate feature when the normalized
\* names are equal, and when both names belong to one synonym group: every
\* name of a group, the multi-word names and the canonical key included,
\* resolves to a feature named by any other member of the group.
C9_SynonymGroupResolves ==
    pc = "done" =>
        /\ (\E i \in DOMAIN sku_features :
               normalize_name(sku_features[i].name) = normalize_name(spec_name))
              => found_value.found
        /\ (\E g \in DOMAIN synonyms : \E i \in DOMAIN sku_features :
               /\ spec_name \in GroupNames(g)
               /\ sku_features[i].name \in GroupNames(g))
              => found_value.found

(***************************************************************************)
(* Properties of _process_rfp_item and compute_spec_match (SpecTech)       *)
(***************************************************************************)
SkuA == CHOOSE c \in Catalog : c.sku_id = ID_SKU_A
SkuB == CHOOSE c \in Catalog : c.sku_id = ID_SKU_B
SkuC == CHOOSE c \in Catalog : c.sku_id = ID_SKU_C
SkuD == CHOOSE c \in Catalog : c.sku_id = ID_SKU_D

\* the position of a SKU in the retrieval result
RetrievalRank(id) == CHOOSE i \in DOMAIN candidates : candidates[i].sku_id = id
\* the candidate a scored entry was computed from
CandidateOf(e) == candidates[RetrievalRank(e.sku_id)]
RankedIds == [i \in DOMAIN scored_skus |-> scored_skus[i].sku_id]
RankedPercents == [i \in DOMAIN scored_skus |-> scored_skus[i].spec_match_percent]
RECURSIVE SumScores(_)
SumScores(rows) ==
    IF rows = <<>> THEN <<0, 1>>
    ELSE RatAdd(Head(rows).match_score, SumScores(Tail(rows)))

\* C2: the ranking holds every candidate once, in descending order of match
\* percentage; candidates of equal percentage keep their retrieval order;
\* the selected best SKU is the first of the ranking.  Percentages
\* [70, 90, 90, 40] retrieved as [A, B, C, D] rank as [B, C, A, D], B selected.
C2_StableDescendingRanking ==
    pc = "done" =>
        /\ Len(scored_skus) = Len(candidates)
        /\ {scored_skus[i].sku_id : i \in DOMAIN scored_skus}
              = {candidates[i].sku_id : i \in DOMAIN candidates}
        /\ \A i, j \in DOMAIN scored_skus : i < j =>
              \/ RatLt(scored_skus[j].spec_match_percent,
                       scored_skus[i].spec_match_percent)
              \/ /\ scored_skus[j].spec_match_percent
                        = scored_skus[i].spec_match_percent
                 /\ RetrievalRank(scored_skus[i].sku_id)
                        < RetrievalRank(scored_skus[j].sku_id)
        /\ candidates # <<>> =>
              recommendation.selected_best_sku_id = scored_skus[1].sku_id
        /\ (rfp_item.specs = <<SpecMaterial, SpecVoltage>>
               /\ candidates = <<SkuA, SkuB, SkuC, SkuD>>) =>
              /\ RankedIds = <<ID_SKU_B, ID_SKU_C, ID_SKU_A, ID_SKU_D>>
              /\ recommendation.selected_best_sku_id = ID_SKU_B

C2_Witness ==
    /\ pc = "done"
    /\ rfp_item.specs = <<SpecMaterial, SpecVoltage>>
    /\ candidates = <<SkuA, SkuB, SkuC, SkuD>>
    /\ RankedPercents = <<RatInt(90), RatInt(90), RatInt(70), RatInt(40)>>
    /\ RankedIds = <<ID_SKU_B, ID_SKU_C, ID_SKU_A, ID_SKU_D>>
    /\ recommendation.selected_best_sku_id = ID_SKU_B

\* C3 as claimed: with no candidates the recommendation selects "NONE", has
\* no top SKUs and no comparison rows, whatever the number of required specs.
C3_NoCandidatesNoRows ==
    (pc = "done" /\ candidates = <<>>) =>
        /\ recommendation.selected_best_sku_id = NONE
        /\ recommendation.top_skus = <<>>
        /\ recommendation.spec_comparison_table = <<>>

\* C3 amended: with no candidates the recommendation selects "NONE" and has
\* no top SKUs; its comparison table has one row per required spec, in the
\* item's order, whose three candidate columns are "N/A" (so the table is
\* empty only for an item without required specs).
C3_NoCandidatesRowsOfNA ==
    (pc = "done" /\ candidates = <<>>) =>
        /\ recommendation.selected_best_sku_id = NONE
        /\ recommendation.top_skus = <<>>
        /\ Len(recommendation.spec_comparison_table) = Len(rfp_item.specs)
        /\ \A i \in DOMAIN recommendation.spec_comparison_table :
              LET row == recommendation.spec_comparison_table[i]
              IN  /\ row.spec_name = rfp_item.specs[i].name
                  /\ row.sku1_value = NA
                  /\ row.sku2_value = NA
                  /\ row.sku3_value = NA

C3_Witness ==
    /\ pc = "done"
    /\ candidates = <<>>
    /\ rfp_item.specs = <<SpecMaterial, SpecVoltage>>
    /\ recommendation.selected_best_sku_id = NONE
    /\ Len(recommendation.spec_comparison_table) = 2

\* C4: compute_spec_match returns a percentage in [0, 100] and per-spec
\* scores in [0, 1]; for an item without required specs it returns 0 and an
\* empty comparison.
C4_PercentageAndScoresInRange ==
    pc = "done" =>
        \A i \in DOMAIN scored_skus :
            LET e == scored_skus[i]
            IN  /\ RatLe(<<0, 1>>, e.match_percent)
                /\ RatLe(e.match_percent, <<100, 1>>)
                /\ \A k \in DOMAIN e.comparison :
                      /\ RatLe(<<0, 1>>, e.comparison[k].match_score)
                      /\ RatLe(e.comparison[k].match_score, <<1, 1>>)
                /\ rfp_item.specs = <<>> =>
                      e.match_percent = <<0, 1>> /\ e.comparison = <<>>

C4_Witness ==
    /\ pc = "done"
    /\ rfp_item.specs = <<>>
    /\ candidates = <<SkuB, SkuC>>
    /\ \A i \in DOMAIN scored_skus :
          scored_skus[i].match_percent = <<0, 1>> /\ scored_skus[i].comparison = <<>>

\* C5: for an item with N >= 1 required specs the reported percentage is
\* 100 * (sum of the N scores) / N rounded to two decimals: it is a multiple
\* of 0.01 at most 0.005 away from the exact value; a candidate whose N rows
\* are all exact matches gets 100.
C5_PercentIsRoundedMean ==
    (pc = "done" /\ rfp_item.specs # <<>>) =>
        /\ \A i \in DOMAIN scored_skus :
              LET e == scored_skus[i]
                  n == Len(rfp_item.specs)
                  exact == RatMul(RatInt(100), RatDivInt(SumScores(e.comparison), n))
              IN  /\ Len(e.comparison) = n
                  /\ (e.spec_match_percent[1] * 100) % e.spec_match_percent[2] = 0
                  /\ RatLe(RatAbs(RatSub(e.spec_match_percent, exact)), <<1, 200>>)
                  /\ (\A k \in DOMAIN e.comparison :
                          e.comparison[k].match_type = "Exact Match")
                        => e.spec_match_percent = <<100, 1>>
        /\ \A k \in DOMAIN recommendation.top_skus :
              recommendation.top_skus[k].spec_match_percent
                  = scored_skus[k].spec_match_percent

C5_Witness ==
    /\ pc = "done"
    /\ rfp_item.specs = <<SpecMaterial, SpecInsulation, SpecVoltage>>
    /\ candidates = <<SkuC>>
    /\ scored_skus[1].match_percent = <<280, 3>>
    /\ scored_skus[1].spec_match_percent = <<9333, 100>>
    /\ recommendation.top_skus[1].spec_match_percent = <<9333, 100>>

\* C10: a required spec to which no feature of the candidate corresponds
\* gets a row with score 0, "No Match" and the sentinel "N/A" as candidate
\* value, and every required spec still gets its row.
C10_MissingFeatureScoresZero ==
    pc = "done" =>
        \A i \in DOMAIN scored_skus :
            LET e == scored_skus[i]
            IN  /\ Len(e.comparison) = Len(rfp_item.specs)
                /\ \A k \in DOMAIN e.comparison :
                      /\ e.comparison[k].spec_name = rfp_item.specs[k].name
                      /\ ~find_matching_feature(rfp_item.specs[k].name,
                                                CandidateOf(e).features).found
                            => /\ e.comparison[k].match_score = <<0, 1>>
                               /\ e.comparison[k].match_type = "No Match"
                               /\ e.comparison[k].sku_value = NA

C10_Witness ==
    /\ pc = "done"
    /\ rfp_item.specs = <<SpecColour, SpecMaterial>>
    /\ candidates = <<SkuB>>
    /\ scored_skus[1].comparison[1].sku_value = NA
    /\ scored_skus[1].comparison[1].match_score = <<0, 1>>
    /\ scored_skus[1].comparison[2].match_score = <<1, 1>>
    /\ scored_skus[1].spec_match_percent = <<50, 1>>

(***************************************************************************)
(* Properties of price_rfp (checked under SpecPrice)                       *)
(***************************************************************************)
RECURSIVE SumAllocated(_)
SumAllocated(lines) ==
    IF lines = <<>> THEN <<0, 1>>
    ELSE RatAdd(Head(lines).allocated_test_cost, SumAllocated(Tail(lines)))

\* |sum of the allocated test costs - total test cost| <= 1e-6
AllocationConserved ==
    RatLe(RatAbs(RatSub(SumAllocated(pricing_output.lines),
                        pricing_output.total_test_cost)),
          <<1, 1000000>>)

\* C1 as claimed: the allocated test costs of the lines price_rfp returns
\* add up to the total test cost T >= 0, also when there is no line and when
\* every line's material cost is 0.
C1_AllocationConservedAlways ==
    pc = "done" => AllocationConserved

\* C1 amended: whenever price_rfp returns at least one line, the allocated
\* test costs add up to the total test cost T >= 0, also when every line's
\* material cost is 0; with no line nothing is allocated and the sum is 0,
\* whatever T is.
C1_AllocationConservedOverLines ==
    pc = "done" =>
        /\ RatLe(<<0, 1>>, pricing_output.total_test_cost)
        /\ pricing_output.lines # <<>> => AllocationConserved
        /\ pricing_output.lines = <<>> => SumAllocated(pricing_output.lines) = <<0, 1>>

C1_Witness ==
    /\ pc = "done"
    /\ Len(pricing_output.lines) = 2
    /\ \A i \in DOMAIN pricing_output.lines :
          /\ pricing_output.lines[i].material_cost = <<0, 1>>
          /\ pricing_output.lines[i].allocated_test_cost = <<3, 1>>
    /\ pricing_output.total_test_cost = <<6, 1>>
    /\ pricing_output.total_material_cost = <<0, 1>>

(***************************************************************************)
(* Properties of the allocation and of the totals (checked under           *)
(* SpecPrice)                                                              *)
(***************************************************************************)
PriceDone == pc = "done"
Lines == pricing_output.lines
Zero == <<0, 1>>

\* C11: when the total material cost over the lines is > 0, each line's
\* allocated test cost equals total test cost x (line material cost / total
\* material cost); a line with material cost 0 in such a batch is allocated 0.
C11_ProportionalAllocation ==
    (PriceDone /\ RatLt(Zero, pricing_output.total_material_cost)) =>
        \A i \in DOMAIN Lines :
            /\ RatMul(Lines[i].allocated_test_cost, pricing_output.total_material_cost)
                  = RatMul(pricing_output.total_test_cost, Lines[i].material_cost)
            /\ Lines[i].material_cost = Zero => Lines[i].allocated_test_cost = Zero

C11_Witness ==
    /\ PriceDone
    /\ Len(Lines) = 2
    /\ Lines[1].material_cost = <<6, 1>>
    /\ Lines[1].allocated_test_cost = <<10, 1>>
    /\ Lines[2].material_cost = Zero
    /\ Lines[2].allocated_test_cost = Zero
    /\ pricing_output.total_test_cost = <<10, 1>>

\* the test prices of the pricing tables a declared test name selects,
\* ignoring letter case: the first one is the price looked up
TestPricesFor(test_name) ==
    {i \in DOMAIN pricing_tables.test_pricing :
        str_lower(pricing_tables.test_pricing[i].test_name) = str_lower(test_name)}

\* the price a declared test contributes: 0 when the tables have none
DeclaredTestPrice(k) ==
    LET at == TestPricesFor(rfp.test_requirements[k].test_name)
    IN  IF at = {} THEN Zero ELSE pricing_tables.test_pricing[MinOf(at)].price

\* the sum of the prices of the first k declared tests
RECURSIVE DeclaredTestTotal(_)
DeclaredTestTotal(k) ==
    IF k = 0 THEN Zero ELSE RatAdd(DeclaredTestTotal(k - 1), DeclaredTestPrice(k))

\* C12: when every line has material cost 0 and there are N >= 1 lines, each
\* line is allocated exactly total test cost / N; when there is no line, the
\* total test cost is still reported in the output and nothing is allocated.
C12_EqualSplitWithoutMaterial ==
    PriceDone =>
        /\ (Lines # <<>> /\ \A i \in DOMAIN Lines : Lines[i].material_cost = Zero) =>
              \A i \in DOMAIN Lines :
                  /\ RatMul(Lines[i].allocated_test_cost, RatInt(Len(Lines)))
                        = pricing_output.total_test_cost
                  /\ Lines[i].total_cost = Lines[i].allocated_test_cost
        /\ Lines = <<>> =>
              /\ pricing_output.total_test_cost
                    = DeclaredTestTotal(Len(rfp.test_requirements))
              /\ pricing_output.grand_total = pricing_output.total_test_cost

C12_Witness ==
    /\ PriceDone
    /\ Len(Lines) = 2
    /\ \A i \in DOMAIN Lines : Lines[i].material_cost = Zero
    /\ pricing_output.total_test_cost = <<10, 1>>
    /\ \A i \in DOMAIN Lines : Lines[i].allocated_test_cost = <<5, 1>>

\* the sum of the material costs of the lines
RECURSIVE SumMaterial(_)
SumMaterial(lines) ==
    IF lines = <<>> THEN Zero
    ELSE RatAdd(SumMaterial(SubSeq(lines, 1, Len(lines) - 1)),
                lines[Len(lines)].material_cost)

\* C13: in every output of price_rfp each line has material_cost = quantity
\* x unit_price and total_cost = material_cost + allocated_test_cost (also
\* when the total test cost is 0 and the allocation is skipped),
\* total_material_cost is the sum of the lines' material costs, and
\* grand_total = total_material_cost + total_test_cost.
C13_CostIdentities ==
    PriceDone =>
        /\ \A i \in DOMAIN Lines :
              /\ Lines[i].material_cost
                    = RatMul(RatInt(Lines[i].quantity), Lines[i].unit_price)
              /\ Lines[i].total_cost
                    = RatAdd(Lines[i].material_cost, Lines[i].allocated_test_cost)
        /\ pricing_output.total_material_cost = SumMaterial(Lines)
        /\ pricing_output.grand_total
              = RatAdd(pricing_output.total_material_cost,
                       pricing_output.total_test_cost)

C13_Witness ==
    /\ PriceDone
    /\ Len(Lines) = 2
    /\ Lines[1].quantity = 2
    /\ Lines[1].unit_price = <<3, 1>>
    /\ Lines[1].allocated_test_cost = <<4, 1>>
    /\ Lines[1].total_cost = <<10, 1>>
    /\ Lines[2].total_cost = <<5, 1>>
    /\ pricing_output.grand_total = <<15, 1>>

\* the recommendations whose item the RFP has, in their order: each gives
\* one line
PricedRecommendations ==
    SelectSeq(technical_output.recommendations,
              LAMBDA rec : \E i \in DOMAIN rfp.scope_of_supply :
                               rfp.scope_of_supply[i].item_id = rec.rfp_item_id)

\* the tables hold a unit price under exactly this SKU id
HasUnitPrice(sku_id) ==
    \E i \in DOMAIN pricing_tables.product_pricing :
        pricing_tables.product_pricing[i].sku_id = sku_id

\* C14: a missing price never aborts pricing: a selected SKU without a unit
\* price still gives a line, with unit_price 0 and material_cost 0; a
\* declared test without a price contributes 0 to the total test cost, which
\* is the sum of the looked-up prices of the declared tests; price_rfp
\* returns a complete output.
C14_MissingPriceDegradesToZero ==
    PriceDone =>
        /\ Len(Lines) = Len(PricedRecommendations)
        /\ \A i \in DOMAIN Lines :
              /\ Lines[i].rfp_item_id = PricedRecommendations[i].rfp_item_id
              /\ Lines[i].sku_id = PricedRecommendations[i].selected_best_sku_id
              /\ ~HasUnitPrice(Lines[i].sku_id) =>
                    /\ Lines[i].unit_price = Zero
                    /\ Lines[i].material_cost = Zero
        /\ pricing_output.total_test_cost
              = DeclaredTestTotal(Len(rfp.test_requirements))
        /\ pricing_output.grand_total
              = RatAdd(pricing_output.total_material_cost,
                       pricing_output.total_test_cost)

C14_Witness ==
    /\ PriceDone
    /\ Len(Lines) = 2
    /\ Lines[1].sku_id = ID_SKU_B
    /\ ~HasUnitPrice(ID_SKU_B)
    /\ Lines[1].unit_price = Zero
    /\ Lines[1].material_cost = Zero
    /\ Len(rfp.test_requirements) = 2
    /\ TestPricesFor(rfp.test_requirements[2].test_name) = {}
    /\ pricing_output.total_test_cost = <<6, 1>>

\* the unit prices of the pricing tables a SKU id selects, ignoring letter
\* case
UnitPricesFor(sku_id) ==
    {i \in DOMAIN pricing_tables.product_pricing :
        str_lower(pricing_tables.product_pricing[i].sku_id) = str_lower(sku_id)}

\* C15 as claimed: both lookups ignore letter case: a line's unit price is
\* the price the tables hold under its SKU id in any letter case, and the
\* total test cost is the sum of the prices the tables hold under the
\* declared test names in any letter case.
C15_LookupsIgnoreCase ==
    PriceDone =>
        /\ \A i \in DOMAIN Lines :
              LET at == UnitPricesFor(Lines[i].sku_id)
              IN  Lines[i].unit_price =
                      IF at = {} THEN Zero
                      ELSE pricing_tables.product_pricing[MinOf(at)].unit_price
        /\ pricing_output.total_test_cost
              = DeclaredTestTotal(Len(rfp.test_requirements))

(***************************************************************************)
(* Properties of the comparison rows and of the kept SKUs (checked under   *)
(* SpecTech)                                                               *)
(***************************************************************************)
TechDone == pc = "done" /\ recommendation # NoRecommendation

\* C19: for an item with at least one required spec and every candidate,
\* the comparison of compute_spec_match has exactly one row per required
\* spec, with unique spec names, in the order the item declares its specs
\* and not in the order of the candidate's features.
C19_OneRowPerSpecInDeclarationOrder ==
    (TechDone /\ rfp_item.specs # <<>>) =>
        /\ Len(scored_skus) = Len(candidates)
        /\ \A k \in DOMAIN scored_skus :
              LET rows == scored_skus[k].comparison
              IN  /\ Len(rows) = Len(rfp_item.specs)
                  /\ \A i \in DOMAIN rows :
                        /\ rows[i].spec_name = rfp_item.specs[i].name
                        /\ rows[i].rfp_value = rfp_item.specs[i].value
                  /\ \A i, j \in DOMAIN rows :
                        i # j => rows[i].spec_name # rows[j].spec_name

\* SKU-C lists its conductor before its voltage grade; the item asks for
\* the voltage grade first and for a colour SKU-C does not have
C19_Witness ==
    /\ TechDone
    /\ rfp_item.specs = <<SpecVoltage, SpecColour, SpecMaterial>>
    /\ \E k \in DOMAIN scored_skus :
          /\ scored_skus[k].sku_id = ID_SKU_C
          /\ Len(scored_skus[k].comparison) = 3
          /\ scored_skus[k].comparison[1].spec_name = N_voltage_grade
          /\ scored_skus[k].comparison[2].sku_value = NA
          /\ scored_skus[k].comparison[3].sku_value = V_copper_sp

ColumnOf(row, k) ==
    IF k = 1 THEN row.sku1_value ELSE IF k = 2 THEN row.sku2_value ELSE row.sku3_value

\* C20: top_skus holds min(3, number of candidates) entries, the first
\* entries of the ranked order; with fewer than 3 candidates every row of
\* the comparison table has "N/A" in the columns of the missing candidates
\* (sku2_value / sku3_value, and sku1_value when there is none).
C20_TopThreePaddedWithNA ==
    TechDone =>
        LET top == recommendation.top_skus
            table == recommendation.spec_comparison_table
        IN  /\ Len(top) = (IF Len(candidates) < 3 THEN Len(candidates) ELSE 3)
            /\ \A k \in DOMAIN top :
                  /\ top[k].sku_id = scored_skus[k].sku_id
                  /\ top[k].spec_match_percent = scored_skus[k].spec_match_percent
            /\ Len(table) = Len(rfp_item.specs)
            /\ \A i \in DOMAIN table : \A k \in 1..3 :
                  IF k > Len(candidates) THEN ColumnOf(table[i], k) = NA
                  ELSE ColumnOf(table[i], k) = scored_skus[k].comparison[i].sku_value

C20_Witness ==
    /\ TechDone
    /\ Len(candidates) = 2
    /\ Len(recommendation.top_skus) = 2
    /\ Len(recommendation.spec_comparison_table) = 2
    /\ \A i \in DOMAIN recommendation.spec_comparison_table :
          /\ recommendation.spec_comparison_table[i].sku1_value # NA
          /\ recommendation.spec_comparison_table[i].sku2_value # NA
          /\ recommendation.spec_comparison_table[i].sku3_value = NA

(***************************************************************************)
(* Properties of the errors of a batch (checked under SpecBatch)           *)
(***************************************************************************)
\* _process_rfp_item has been entered for rfp_item
ItemEntered == rfp_item # NoItem

\* the items of the payload that are valid input
ValidItem(item) == item.quantity > 0 /\ item.item_id # ""

\* C16 as claimed: a candidate whose comparison raises is treated as having
\* score 0 and the error is not propagated: run does not raise, the item
\* still gets its recommendation, ranked over all its candidates.
C16_ScoringErrorContained ==
    (ItemEntered /\ process_rfp_item_raises(candidates)) =>
        /\ pc # "raised"
        /\ recommendation.rfp_item_id = rfp_item.item_id
        /\ Len(scored_skus) = Len(candidates)
        /\ \A k \in DOMAIN scored_skus :
              (\E i \in DOMAIN candidates :
                  /\ dict_to_sku_raises(candidates[i])
                  /\ candidates[i].sku_id = scored_skus[k].sku_id)
              => scored_skus[k].spec_match_percent = <<0, 1>>

\* the last query of the index raised
QueryRaised == ItemEntered /\ retriever.index_loaded /\ retriever.response.raised

\* C17 as claimed: when the retrieval for an item fails, the item's
\* recommendation has selected_best_sku_id = "NONE" and the run goes on.
C17_RetrievalFailureSelectsNone ==
    QueryRaised =>
        /\ pc # "raised"
        /\ recommendation.rfp_item_id = rfp_item.item_id
        /\ recommendation.selected_best_sku_id = NONE

\* C17 amended: when the query of the index raises for an item, the item is
\* scored against every SKU of the repository (against none when loading
\* the repository raises too); its selected_best_sku_id is "NONE" exactly
\* when that list is empty; the error is not propagated: the item's
\* recommendation is appended and the loop goes on to the next item.
C17_RetrievalFailureFallsBackToRepository ==
    QueryRaised =>
        /\ pc # "raised"
        /\ Len(candidates) =
              (IF retriever.repository.raised THEN 0
               ELSE Len(retriever.repository.skus))
        /\ \A i \in DOMAIN candidates :
              candidates[i].sku_id = retriever.repository.skus[i].sku_id
        /\ Len(scored_skus) = Len(candidates)
        /\ recommendation.rfp_item_id = rfp_item.item_id
        /\ (recommendation.selected_best_sku_id = NONE) <=> (candidates = <<>>)
        /\ technical_output.recommendations # <<>>
        /\ technical_output.recommendations[Len(technical_output.recommendations)]
              = recommendation

C17_Witness ==
    /\ QueryRaised
    /\ pc = "returned"
    /\ Len(rfp.scope_of_supply) = 2
    /\ Len(technical_output.recommendations) = 2
    /\ Len(candidates) = 2
    /\ recommendation.selected_best_sku_id = ID_SKU_C

\* C18 as claimed: an item with invalid input (quantity <= 0, empty item
\* identifier, a candidate with an empty identifier) is rejected before it
\* is scored, and its rejection does not prevent the other items of the
\* batch from being matched: a run ends with a recommendation for every
\* valid item, none for an invalid one, and no kept SKU without identifier.
C18_InvalidItemRejectedAlone ==
    /\ (ItemEntered /\ pc # "raised") => ValidItem(rfp_item)
    /\ \A k \in DOMAIN technical_output.recommendations :
          /\ technical_output.recommendations[k].rfp_item_id # ""
          /\ \A j \in DOMAIN technical_output.recommendations[k].top_skus :
                technical_output.recommendations[k].top_skus[j].sku_id # <<>>
    /\ (pc = "raised" /\ ~ItemEntered) =>
          \A i \in DOMAIN rfp.scope_of_supply : ~ValidItem(rfp.scope_of_supply[i])

(***************************************************************************)
(* Further properties of the value comparison (checked under SpecCompare)  *)
(***************************************************************************)
Score == cmp_out.match_score
CmpSubstring == str_in(CmpRfpStr, CmpSkuStr) \/ str_in(CmpSkuStr, CmpRfpStr)
CmpCommonWords == str_words(CmpRfpStr) \cap str_words(CmpSkuStr)
CmpMostWords ==
    Max(Cardinality(str_words(CmpRfpStr)), Cardinality(str_words(CmpSkuStr)))

\* C23: unequal value strings of which at least one has no number: when one
\* is a substring of the other the score is 0.6; otherwise it is 0.5 x
\* |common words| / max(|words of a|, |words of b|), which is 0 when no
\* word is shared and never exceeds 0.5.
C23_SubstringThenWordOverlap ==
    (CmpDone /\ CmpRfpStr # CmpSkuStr /\ ~(CmpA.found /\ CmpB.found)) =>
        IF CmpSubstring THEN Score = <<3, 5>>
        ELSE /\ Score[1] * 2 * CmpMostWords = Cardinality(CmpCommonWords) * Score[2]
             /\ CmpCommonWords = {} => Score = <<0, 1>>
             /\ 2 * Score[1] <= Score[2]

C23_Witness ==
    /\ pc = "done"
    /\ rfp_value = V_xlpe_pvc
    /\ sku_value = Some(V_pvc_fr)
    /\ Score = <<1, 4>>

\* the label the thresholds give a score n / d
LabelOf(score) ==
    IF 20 * score[1] >= 19 * score[2] THEN "Exact Match"
    ELSE IF 4 * score[1] >= 3 * score[2] THEN "Good Match"
    ELSE IF 2 * score[1] >= score[2] THEN "Partial Match"
    ELSE IF score[1] > 0 THEN "Weak Match"
    ELSE "No Match"

\* C24: a row's classification is the threshold function of its score
\* (>= 0.95 Exact Match, >= 0.75 Good Match, >= 0.5 Partial Match, > 0 Weak
\* Match, 0 No Match), and it is the label the rule that gave the score
\* names: 1.0 Exact Match, 0.8 Good Match, 0.6 and 0.5 Partial Match, a
\* word overlap strictly between 0 and 0.5 Weak Match, 0.0 No Match.
C24_ClassificationByThreshold ==
    pc = "done" =>
        /\ cmp_out.match_type = LabelOf(Score)
        /\ Score = <<1, 1>> => cmp_out.match_type = "Exact Match"
        /\ Score = <<4, 5>> => cmp_out.match_type = "Good Match"
        /\ Score \in {<<3, 5>>, <<1, 2>>} => cmp_out.match_type = "Partial Match"
        /\ (Score[1] > 0 /\ 2 * Score[1] < Score[2])
              => cmp_out.match_type = "Weak Match"
        /\ Score = <<0, 1>> => cmp_out.match_type = "No Match"

C24_Witness ==
    /\ pc = "done"
    /\ rfp_value = V_100
    /\ sku_value = Some(V_120)
    /\ Score = <<1, 2>>
    /\ cmp_out.match_type = "Partial Match"

\* C28: the numeric rule goes before the substring and word rules: when the
\* two unequal strings both hold a run of digits, anywhere in the string,
\* the score is 0.8, 0.5 or 0.0 and the first number of each string alone
\* decides it, whatever the sign, the unit and the other text; "1.1 kV"
\* against "1.1" scores 0.8 and not 0.6, "-5" against "5" scores 0.8.
C28_NumericRuleFirst ==
    /\ CmpNumeric =>
          /\ Score \in {<<4, 5>>, <<1, 2>>, <<0, 1>>}
          /\ Score = IF WithinRel(CmpA.value, CmpB.value, 1) THEN <<4, 5>>
                     ELSE IF WithinRel(CmpA.value, CmpB.value, 2) THEN <<1, 2>>
                     ELSE <<0, 1>>
    /\ (pc = "done" /\ rfp_value = V_1_1_kV /\ sku_value = Some(V_1_1))
          => Score = <<4, 5>>
    /\ (pc = "done" /\ rfp_value = V_neg5 /\ sku_value = Some(V_5))
          => Score = <<4, 5>>

C28_Witness ==
    /\ pc = "done"
    /\ rfp_value = V_1_1_kV
    /\ sku_value = Some(V_1_1)
    /\ CmpSubstring
    /\ Score = <<4, 5>>
    /\ cmp_out.match_type = "Good Match"

\* C29: a candidate value that is present but empty, or whitespace only,
\* scores 0.6, "Partial Match", against every required value that is not
\* empty (nor whitespace only), because the empty string is a substring of
\* every string; an absent feature scores 0.
C29_EmptyCandidateValueScoresSubstring ==
    pc = "done" =>
        /\ (sku_value.found /\ CmpSkuStr = <<>> /\ CmpRfpStr # <<>>) =>
              /\ Score = <<3, 5>>
              /\ cmp_out.match_type = "Partial Match"
        /\ ~sku_value.found =>
              /\ Score = <<0, 1>>
              /\ cmp_out.match_type = "No Match"

C29_Witness ==
    /\ pc = "done"
    /\ rfp_value = V_1_1_kV
    /\ sku_value = Some(V_blank)
    /\ Score = <<3, 5>>

(***************************************************************************)
(* Properties of the pipeline (checked under Spec) and further properties  *)
(* of price_rfp (checked under SpecPrice)                                  *)
(***************************************************************************)
\* C21: an item whose recommendation is "NONE" (no candidate) still gives a
\* pricing line, with material cost 0; the line is allocated 0 test cost
\* when the total material cost of the batch is > 0 and an equal 1/N share
\* of the total test cost when it is 0.
C21_NoneRecommendationStillPriced ==
    PriceDone =>
        /\ Len(Lines) = Len(technical_output.recommendations)
        /\ \A i \in DOMAIN technical_output.recommendations :
              LET rec == technical_output.recommendations[i]
              IN  rec.selected_best_sku_id = NONE =>
                    /\ rec.top_skus = <<>>
                    /\ Lines[i].rfp_item_id = rec.rfp_item_id
                    /\ Lines[i].sku_id = NONE
                    /\ Lines[i].material_cost = Zero
                    /\ RatLt(Zero, pricing_output.total_material_cost)
                          => Lines[i].allocated_test_cost = Zero
                    /\ pricing_output.total_material_cost = Zero
                          => RatMul(Lines[i].allocated_test_cost, RatInt(Len(Lines)))
                                = pricing_output.total_test_cost

C21_Witness ==
    /\ PriceDone
    /\ Len(Lines) = 2
    /\ technical_output.recommendations[1].selected_best_sku_id = ID_SKU_A
    /\ technical_output.recommendations[2].selected_best_sku_id = NONE
    /\ Lines[1].material_cost = <<6, 1>>
    /\ Lines[1].allocated_test_cost = <<10, 1>>
    /\ Lines[2].material_cost = Zero
    /\ Lines[2].allocated_test_cost = Zero

\* the quantity of the first item of the RFP with this id
QuantityOf(item_id) ==
    rfp.scope_of_supply[MinOf({i \in DOMAIN rfp.scope_of_supply :
                                  rfp.scope_of_supply[i].item_id = item_id})].quantity

\* C30: price_rfp gives exactly one line per recommendation whose
\* rfp_item_id is that of an item of the RFP, in the order of the
\* recommendations; a recommendation for no item of the RFP is skipped and
\* adds nothing to total_material_cost; an item without recommendation gets
\* no line; the whole total test cost is still allocated over the lines
\* that were produced.
C30_OneLinePerMatchedRecommendation ==
    PriceDone =>
        /\ Len(Lines) = Len(PricedRecommendations)
        /\ \A i \in DOMAIN Lines :
              /\ Lines[i].rfp_item_id = PricedRecommendations[i].rfp_item_id
              /\ Lines[i].sku_id = PricedRecommendations[i].selected_best_sku_id
              /\ Lines[i].quantity = QuantityOf(Lines[i].rfp_item_id)
        /\ pricing_output.total_material_cost = SumMaterial(Lines)
        /\ \A k \in DOMAIN rfp.scope_of_supply :
              (\A j \in DOMAIN technical_output.recommendations :
                  technical_output.recommendations[j].rfp_item_id
                      # rfp.scope_of_supply[k].item_id)
              => \A i \in DOMAIN Lines :
                    Lines[i].rfp_item_id # rfp.scope_of_supply[k].item_id
        /\ Lines # <<>> => SumAllocated(Lines) = pricing_output.total_test_cost

C30_Witness ==
    /\ PriceDone
    /\ Len(rfp.scope_of_supply) = 2
    /\ Len(technical_output.recommendations) = 2
    /\ technical_output.recommendations[1].rfp_item_id = "ITEM-9"
    /\ technical_output.recommendations[1].selected_best_sku_id = ID_SKU_A
    /\ technical_output.recommendations[2].rfp_item_id = "ITEM-1"
    /\ Len(Lines) = 1
    /\ Lines[1].rfp_item_id = "ITEM-1"
    /\ Lines[1].allocated_test_cost = <<10, 1>>
    /\ pricing_output.total_test_cost = <<10, 1>>

\* C26: price_rfp leaves its inputs as they were: the pricing tables, the
\* RFP (items, quantities, test requirements) and the technical output
\* (recommendations, selected SKU ids) are the same after the call as
\* before it, whether or not a lookup misses; only the output is written.
C26_PriceRfpLeavesInputsUnchanged ==
    [][(pc = "start" /\ pc' = "done") =>
            /\ pricing_tables' = pricing_tables
            /\ rfp' = rfp
            /\ technical_output' = technical_output]_vars

C26_Witness ==
    /\ PriceDone
    /\ Len(technical_output.recommendations) = 2
    /\ Len(Lines) = 2
    /\ ~HasUnitPrice(Lines[1].sku_id)
    /\ HasUnitPrice(Lines[2].sku_id)
    /\ Len(rfp.test_requirements) = 1
    /\ TestPricesFor(rfp.test_requirements[1].test_name) = {}

\* the end-to-end example has been run: one item of 1000 units asking for
\* copper and 1.1 kV, one candidate of copper at 1.05 kV, priced at 120 per
\* unit, one test priced at 5000
ScenarioRun ==
    /\ pc = "done"
    /\ rfp.scope_of_supply =
          <<[item_id |-> "ITEM-1", quantity |-> ScenarioQuantity,
             specs |-> <<SpecMaterial, SpecVoltage>>]>>
    /\ rfp.test_requirements = <<TestReq(T_Routine_Tests)>>
    /\ candidates = <<ScenarioSku>>
    /\ pricing_tables = ScenarioTables

\* C22: an item asking for conductor_material "Copper" and voltage_grade
\* "1.1 kV", quantity 1000, against the single candidate with "Copper" and
\* "1.05 kV" gets the scores 1.0 and 0.8 and the match percentage 90.0; at
\* unit price 120 and with one test priced 5000 its single pricing line has
\* material cost 120000, allocated test cost 5000 and total cost 125000.
C22_EndToEndExample ==
    ScenarioRun =>
        /\ Len(scored_skus) = 1
        /\ scored_skus[1].comparison[1].match_score = <<1, 1>>
        /\ scored_skus[1].comparison[2].match_score = <<4, 5>>
        /\ Len(technical_output.recommendations) = 1
        /\ technical_output.recommendations[1].top_skus[1].spec_match_percent
              = <<90, 1>>
        /\ technical_output.recommendations[1].selected_best_sku_id = ID_SKU_F
        /\ Len(Lines) = 1
        /\ Lines[1].material_cost = <<120000, 1>>
        /\ Lines[1].allocated_test_cost = <<5000, 1>>
        /\ Lines[1].total_cost = <<125000, 1>>
        /\ pricing_output.grand_total = <<125000, 1>>

C22_Witness ==
    /\ ScenarioRun
    /\ Lines[1].total_cost = <<125000, 1>>

\* the recommendations TechnicalAgent.run has appended so far
Recs == technical_output.recommendations

C27_ConstructedAtMostOnce ==
    /\ services.created <= 1
    /\ \A t \in DOMAIN services.threads :
          \A i \in DOMAIN services.threads[t].returned :
             services.threads[t].returned[i] = 1

====
